---------------------------- MODULE Spec2Model ----------------------------
(***************************************************************************)
(* Model of the CSV-to-WordPress bulk uploader / updater                   *)
(* (src/bulk-upload.js holds two modules: the uploader, lines 1-843, and   *)
(* the updater, lines 845-1601).                                           *)
(*                                                                         *)
(* Text values (CSV fields, titles, term names) are sequences of one-      *)
(* character strings, so that trim / normalisation are computed.           *)
(* One action is one remote call or timer of the JavaScript code together  *)
(* with the synchronous continuation that runs until the next await.       *)
(***************************************************************************)
EXTENDS Integers, Sequences, FiniteSets, TLC

(***************************************************************************)
(* Text helpers                                                            *)
(***************************************************************************)
WS == {" ", "\t"}

UpperChars == <<"A","B","C","D","E","F","G","H","I","J","K","L","M",
                "N","O","P","Q","R","S","T","U","V","W","X","Y","Z">>
LowerChars == <<"a","b","c","d","e","f","g","h","i","j","k","l","m",
                "n","o","p","q","r","s","t","u","v","w","x","y","z">>

toLowerChar(c) ==
  IF \E k \in 1..Len(UpperChars) : UpperChars[k] = c
  THEN LowerChars[CHOOSE k \in 1..Len(UpperChars) : UpperChars[k] = c]
  ELSE c

toLowerCase(s) == [k \in 1..Len(s) |-> toLowerChar(s[k])]

RECURSIVE trimStart(_)
trimStart(s) ==
  IF s = <<>> THEN <<>>
  ELSE IF Head(s) \in WS THEN trimStart(Tail(s)) ELSE s

RECURSIVE trimEnd(_)
trimEnd(s) ==
  IF s = <<>> THEN <<>>
  ELSE IF s[Len(s)] \in WS THEN trimEnd(SubSeq(s, 1, Len(s) - 1)) ELSE s

trim(s) == trimEnd(trimStart(s))

\* JavaScript truthiness of  x?.trim()  for a CSV field (absent = empty)
NonBlank(s) == trim(s) # <<>>

\* String.prototype.replace(/literal/g, rep)
RECURSIVE replaceLiteralFrom(_, _, _, _)
replaceLiteralFrom(s, pat, rep, i) ==
  IF i > Len(s) THEN <<>>
  ELSE IF i + Len(pat) - 1 <= Len(s) /\ SubSeq(s, i, i + Len(pat) - 1) = pat
       THEN rep \o replaceLiteralFrom(s, pat, rep, i + Len(pat))
       ELSE <<s[i]>> \o replaceLiteralFrom(s, pat, rep, i + 1)

replaceLiteral(s, pat, rep) == replaceLiteralFrom(s, pat, rep, 1)

\* first position j >= i with s[j] = c, or 0
firstIndexFrom(s, c, i) ==
  IF \E j \in i..Len(s) : s[j] = c
  THEN CHOOSE j \in i..Len(s) : s[j] = c /\ \A m \in i..(j - 1) : s[m] # c
  ELSE 0

\* .replace(/<[^>]*>/g, '')
RECURSIVE stripTagsFrom(_, _)
stripTagsFrom(s, i) ==
  IF i > Len(s) THEN <<>>
  ELSE IF s[i] = "<" /\ firstIndexFrom(s, ">", i + 1) # 0
       THEN stripTagsFrom(s, firstIndexFrom(s, ">", i + 1) + 1)
       ELSE <<s[i]>> \o stripTagsFrom(s, i + 1)

stripTags(s) == stripTagsFrom(s, 1)

\* .replace(/&[^;]+;/g, '')
RECURSIVE stripEntitiesFrom(_, _)
stripEntitiesFrom(s, i) ==
  IF i > Len(s) THEN <<>>
  ELSE IF s[i] = "&" /\ firstIndexFrom(s, ";", i + 1) > i + 1
       THEN stripEntitiesFrom(s, firstIndexFrom(s, ";", i + 1) + 1)
       ELSE <<s[i]>> \o stripEntitiesFrom(s, i + 1)

stripEntities(s) == stripEntitiesFrom(s, 1)

\* .replace(/\s+/g, ' ')
RECURSIVE collapseWsFrom(_, _)
collapseWsFrom(s, i) ==
  IF i > Len(s) THEN <<>>
  ELSE IF s[i] \in WS
       THEN IF i > 1 /\ s[i - 1] \in WS
            THEN collapseWsFrom(s, i + 1)
            ELSE <<" ">> \o collapseWsFrom(s, i + 1)
       ELSE <<s[i]>> \o collapseWsFrom(s, i + 1)

collapseWs(s) == collapseWsFrom(s, 1)

\* a normalization that decodes the fixed entities and leaves the others
normalizeTitle_keepsOtherEntities(str) ==
  IF str = <<>> THEN <<>>
  ELSE
    LET s1 == stripTags(str)
        s2 == replaceLiteral(s1, <<"&","n","b","s","p",";">>, <<" ">>)
        s3 == replaceLiteral(s2, <<"&","a","m","p",";">>, <<"&">>)
        s4 == replaceLiteral(s3, <<"&","q","u","o","t",";">>, <<"\"">>)
        s5 == replaceLiteral(s4, <<"&","#","8","2","1","7",";">>, <<"'">>)
        s6 == replaceLiteral(s5, <<"&","#","8","2","1","6",";">>, <<"'">>)
        s7 == replaceLiteral(s6, <<"&","#","3","9",";">>, <<"'">>)
        s8 == replaceLiteral(s7, <<"&","#","0","3","8",";">>, <<"&">>)
    IN trim(toLowerCase(collapseWs(s8)))

\* normalizeTitle of findPostByTitle (the uploader's and the updater's are
\* the same chain of replacements)
normalizeTitle(str) ==
  IF str = <<>> THEN <<>>
  ELSE
    LET s1 == stripTags(str)
        s2 == replaceLiteral(s1, <<"&","n","b","s","p",";">>, <<" ">>)
        s3 == replaceLiteral(s2, <<"&","a","m","p",";">>, <<"&">>)
        s4 == replaceLiteral(s3, <<"&","q","u","o","t",";">>, <<"\"">>)
        s5 == replaceLiteral(s4, <<"&","#","8","2","1","7",";">>, <<"'">>)
        s6 == replaceLiteral(s5, <<"&","#","8","2","1","6",";">>, <<"'">>)
        s7 == replaceLiteral(s6, <<"&","#","3","9",";">>, <<"'">>)
        s8 == replaceLiteral(s7, <<"&","#","0","3","8",";">>, <<"&">>)
        s9 == stripEntities(s8)
    IN trim(toLowerCase(collapseWs(s9)))


(***************************************************************************)
(* Values                                                                  *)
(***************************************************************************)
\* null of result.postId / existingPostId / mediaId (ids of the remote are
\* positive, and the code tests ids by truthiness)
NoId == 0
\* null of result.action, result.status and result.error
NoAction == "none"
NoStatus == <<>>
NoError == "null"

default_status == <<"d","r","a","f","t">>
perPage == 100
maxPages == 10

\* the messages of the errors the row functions raise or record
ErrMissingTitle == "Missing required field: title"
ErrMissingContent == "Missing required field: content"
ErrDuplicate == "already exists. Duplicate posts are not allowed."
ErrIdNotFound == "Post with ID not found"
ErrSlugNotFound == "Post with slug not found"
ErrTitleNotFound == "Post with title not found"
ErrMissingIdentifier == "Missing identifier: must provide post_id, slug, or title"
ErrNothingToUpdate == "No fields to update. Provide at least one field to update."
ErrRemote == "Request failed"
ErrCallback == "progressCallback threw"
ErrReadFile == "EISDIR: illegal operation on a directory, read"

(***************************************************************************)
(* CSV rows and files (the inputs)                                         *)
(***************************************************************************)
BlankRow ==
  [ title |-> <<>>, content |-> <<>>, status |-> <<>>, slug |-> <<>>,
    excerpt |-> <<>>, categories |-> <<>>, tags |-> <<>>,
    featured_image_path |-> <<>>, featured_image_url |-> <<>>,
    acf_json |-> <<>>, meta_title |-> <<>>, meta_description |-> <<>>,
    focus_keyword |-> <<>>, post_id |-> <<>> ]

\* a Google Drive sharing link and a plain image URL
DriveShare ==
  <<"h","t","t","p","s",":","/","/","d","r","i","v","e",".","g","o","o","g",
    "l","e",".","c","o","m","/","f","i","l","e","/","d","/","A","b","/","v",
    "i","e","w">>
PlainUrl == <<"h","t","t","p",":","/","/","h","/","a",".","p","n","g">>

RowAb    == [BlankRow EXCEPT !.title = <<"A"," ","b">>, !.content = <<"c">>]
RowAb2   == [BlankRow EXCEPT !.title = <<"a"," "," ","B"," ">>, !.content = <<"c">>]
RowNoContent == [BlankRow EXCEPT !.title = <<"N">>, !.content = <<" ">>]
RowNoTitle   == [BlankRow EXCEPT !.title = <<" ">>, !.content = <<"c">>]
RowSlug  == [BlankRow EXCEPT !.title = <<"S">>, !.content = <<"c">>,
                             !.slug = <<"s">>, !.status = <<"p">>]
RowSlugX == [BlankRow EXCEPT !.title = <<"X">>, !.content = <<"c">>,
                             !.slug = <<" ","s">>,
                             !.featured_image_url = DriveShare]
RowRich  == [BlankRow EXCEPT !.title = <<"R">>, !.content = <<"c">>,
                             !.categories = <<"n",","," ","N","x">>,
                             !.tags = <<"n">>,
                             !.featured_image_path = <<"o","k">>,
                             !.acf_json = <<"{","}">>,
                             !.meta_title = <<"m">>]

RowKk    == [BlankRow EXCEPT !.title = <<"K">>, !.content = <<"c">>,
                             !.categories = <<"k",","," ","K">>,
                             !.meta_description = <<"e">>,
                             !.focus_keyword = <<" ","f">>]
RowK2    == [BlankRow EXCEPT !.title = <<"L">>, !.content = <<"c">>,
                             !.categories = <<"K"," ">>]

RowDirImage == [BlankRow EXCEPT !.title = <<"D">>, !.content = <<"c">>,
                                !.featured_image_path = <<"d">>]

UpdIdOnly   == [BlankRow EXCEPT !.post_id = <<"1">>]
UpdIdStatus == [BlankRow EXCEPT !.post_id = <<"1">>, !.status = <<"p">>]
UpdIdGone   == [BlankRow EXCEPT !.post_id = <<"9">>, !.slug = <<"s">>,
                                !.title = <<"a"," ","B">>]
UpdSlugGone == [BlankRow EXCEPT !.slug = <<"q">>, !.title = <<"a"," ","B">>]
UpdSlug     == [BlankRow EXCEPT !.slug = <<"s">>, !.content = <<"z">>,
                                !.featured_image_url = PlainUrl]
UpdTitle    == [BlankRow EXCEPT !.title = <<"a"," ","b"," ">>, !.categories = <<"n">>]
UpdNothing  == [BlankRow EXCEPT !.content = <<"z">>]

\* the progress callbacks a caller may pass: none (null), one that returns
\* normally, one that throws on a 'success' event, one that throws on an
\* 'error' event
Callbacks == {"none", "ok", "throwsOnSuccess", "throwsOnError"}

Job(m, f, c) == [mode |-> m, exists |-> TRUE, rows |-> f, cb |-> c]

\* one call of processCsvFile / processUpdateCsvFile (host "server") or one
\* run of main (host "cli", which passes no callback); exists = FALSE is a
\* path naming no file
AllJobs ==
  { Job("upload", <<RowAb, RowAb2>>, "ok"),
    Job("upload", <<RowNoContent, RowSlug>>, "ok"),
    Job("upload", <<RowNoContent, RowSlug>>, "throwsOnError"),
    Job("upload", <<RowSlugX>>, "throwsOnSuccess"),
    Job("upload", <<RowNoTitle, RowRich>>, "none"),
    Job("upload", <<RowDirImage>>, "ok"),
    Job("upload", <<RowKk, RowK2>>, "none"),
    Job("upload", <<>>, "ok"),
    Job("update", <<UpdIdOnly, UpdIdStatus>>, "ok"),
    Job("update", <<UpdIdOnly, UpdIdStatus>>, "throwsOnError"),
    Job("update", <<UpdIdGone, UpdSlug>>, "throwsOnSuccess"),
    Job("update", <<UpdNothing, UpdTitle>>, "none"),
    Job("update", <<>>, "none"),
    Job("update", <<UpdSlugGone, UpdIdGone>>, "ok"),
    Job("upload", <<RowAb, RowNoContent, RowAb2>>, "ok"),
    Job("update", <<UpdSlug, UpdIdOnly, UpdIdStatus>>, "ok"),
    [Job("upload", <<>>, "ok") EXCEPT !.exists = FALSE],
    [Job("update", <<>>, "ok") EXCEPT !.exists = FALSE] }

\* longest CSV file of the inputs
MaxRows == 2

\* number of remote requests that fail in one run of the system
MaxFaults == 1

Jobs == { j \in AllJobs : Len(j.rows) <= MaxRows }

\* the batch invocations of one server process that may overlap
Inv == {1, 2}

(***************************************************************************)
(* State                                                                   *)
(***************************************************************************)
VARIABLES
  host,        \* "server": the module is imported and its exported batch
               \* functions are called; "cli": the module runs main()
  posts,       \* the remote's posts created or seeded, newest first
  fillers,     \* number of further remote posts, older than `posts`
  oldPosts,    \* the remote's oldest posts
  terms,       \* the remote's terms, per taxonomy
  media,       \* the media items uploaded to the remote, oldest first
  logResults,  \* the module-level accumulators, one per module
  inv,         \* per invocation: its position and local variables
  overlapped,  \* history: the invocation ran while another one was active
  faults,      \* number of remote requests that have failed
  input,       \* the argument of a function applied on its own
  output       \* the values the applications have returned, in order

vars == <<host, posts, fillers, oldPosts, terms, media, logResults, inv,
          overlapped, faults, input, output>>

\* the outcomes of one remote request: it is answered, or it fails (network
\* error, timeout, error status)
Answers == IF faults < MaxFaults THEN {TRUE, FALSE} ELSE {TRUE}

EmptyObj == [k \in {} |-> <<>>]
Put(obj, k, v) == [x \in (DOMAIN obj) \cup {k} |-> IF x = k THEN v ELSE obj[x]]

NewResult(rowNumber, row) ==
  [ rowNumber |-> rowNumber,
    title |-> IF row.title = <<>> THEN <<"U","n","t","i","t","l","e","d">>
              ELSE row.title,
    action |-> NoAction, postId |-> NoId, status |-> NoStatus,
    error |-> NoError ]

\* no image asset (downloadImageFromUrl's null)
NoAsset == [ok |-> FALSE, fileName |-> <<>>, mimeType |-> "", src |-> <<>>]

NoSummary == [total |-> 0, success |-> 0, failed |-> 0, results |-> <<>>]

Idle ==
  [ pc |-> "idle", mode |-> "upload", cb |-> "none", exists |-> TRUE,
    isConnected |-> "pending",
    rows |-> <<>>, i |-> 0, result |-> NewResult(0, BlankRow),
    postData |-> EmptyObj, tax |-> "categories", names |-> <<>>,
    termIds |-> <<>>, img |-> NoAsset, page |-> 0, target |-> NoId,
    out |-> <<>>, summary |-> NoSummary, exitCode |-> -1,
    attempted |-> 0, pushed |-> 0, writes |-> 0, rowWrites |-> 0,
    created |-> <<>>, events |-> <<>> ]

Terminal == {"returned", "threw", "exited"}
Active(q) == inv[q].pc \notin ({"idle"} \cup Terminal)


(***************************************************************************)
(* The remote REST API (external; modelled at its interface, spec par. 6)  *)
(***************************************************************************)
FillerPost == [id |-> 1000000, title |-> <<"f">>, slug |-> <<"f">>,
               status |-> <<"p">>]

TotalPosts == Len(posts) + fillers + Len(oldPosts)

\* the k-th post of the listing ordered by date, newest first
PostAt(k) ==
  IF k <= Len(posts) THEN posts[k]
  ELSE IF k <= Len(posts) + fillers THEN FillerPost
  ELSE oldPosts[k - Len(posts) - fillers]

Min(a, b) == IF a < b THEN a ELSE b
Max(a, b) == IF a > b THEN a ELSE b

\* GET /posts?per_page=100&page=..&status=any&orderby=date&order=desc
listPage(page) ==
  LET from == (page - 1) * perPage
      n    == Min(perPage, Max(0, TotalPosts - from))
  IN [k \in 1..n |-> PostAt(from + k)]

ExplicitPosts == posts \o oldPosts

\* GET /posts?slug=..&per_page=1 : the id of the post with that slug, or NoId
remoteIdBySlug(slug) ==
  IF \E k \in 1..Len(ExplicitPosts) : ExplicitPosts[k].slug = slug
  THEN ExplicitPosts[CHOOSE k \in 1..Len(ExplicitPosts) :
                       /\ ExplicitPosts[k].slug = slug
                       /\ \A m \in 1..(k - 1) : ExplicitPosts[m].slug # slug].id
  ELSE NoId

remoteHasId(id) == \E k \in 1..Len(ExplicitPosts) : ExplicitPosts[k].id = id
remotePost(id) ==
  ExplicitPosts[CHOOSE k \in 1..Len(ExplicitPosts) : ExplicitPosts[k].id = id]

Digits == <<"0","1","2","3","4","5","6","7","8","9">>
IsDigit(c) == \E d \in 1..10 : Digits[d] = c
DigitVal(c) == (CHOOSE d \in 1..10 : Digits[d] = c) - 1

\* the post id a path segment /posts/{text} names (NoId when it is no number)
RECURSIVE pathId(_)
pathId(text) ==
  IF text = <<>> THEN NoId
  ELSE IF \E k \in 1..Len(text) : ~IsDigit(text[k]) THEN NoId
  ELSE IF Len(text) = 1 THEN DigitVal(text[1])
  ELSE 10 * pathId(SubSeq(text, 1, Len(text) - 1)) + DigitVal(text[Len(text)])

NextPostId == Len(posts) + Len(oldPosts) + 1

\* POST /posts : the remote's posts after the create
remoteCreate(payload) ==
  << [ id |-> NextPostId, title |-> payload["title"],
       slug |-> IF "slug" \in DOMAIN payload THEN payload["slug"] ELSE <<>>,
       status |-> payload["status"] ] >> \o posts

\* POST /posts/{id} : one post after the update (only the keys sent change)
remoteApply(post, payload) ==
  [ post EXCEPT
      !.title  = IF "title" \in DOMAIN payload THEN payload["title"] ELSE @,
      !.slug   = IF "slug" \in DOMAIN payload THEN payload["slug"] ELSE @,
      !.status = IF "status" \in DOMAIN payload THEN payload["status"] ELSE @ ]

remoteUpdateSeq(seq, id, payload) ==
  [k \in 1..Len(seq) |->
     IF seq[k].id = id THEN remoteApply(seq[k], payload) ELSE seq[k]]

\* s contains sub
Contains(s, sub) ==
  \E k \in 1..(Len(s) - Len(sub) + 1) : SubSeq(s, k, k + Len(sub) - 1) = sub

\* GET /{taxonomy}?search=..&per_page=100 : the terms whose name contains the
\* search text, ignoring case
remoteSearchTerms(tax, q) ==
  LET hit(t) == Contains(toLowerCase(t.name), toLowerCase(q))
  IN SelectSeq(terms[tax], hit)

NextTermId == Len(terms["categories"]) + Len(terms["tags"]) + 1
NextMediaId == Len(media) + 1

(***************************************************************************)
(* Pure helpers of the row functions                                       *)
(***************************************************************************)
\* termString.split(',').map(n => n.trim()).filter(Boolean)
RECURSIVE splitComma(_, _)
splitComma(s, cur) ==
  IF s = <<>> THEN <<cur>>
  ELSE IF Head(s) = "," THEN <<cur>> \o splitComma(Tail(s), <<>>)
  ELSE splitComma(Tail(s), Append(cur, Head(s)))

termNames(termString) ==
  LET parts   == splitComma(termString, <<>>)
      trimmed == [k \in 1..Len(parts) |-> trim(parts[k])]
      keep(n) == n # <<>>
  IN SelectSeq(trimmed, keep)

\* a lookup that compares the names letter for letter
existingTermId_caseSensitive(data, trimmedName) ==
  IF \E k \in 1..Len(data) : data[k].name = trimmedName
  THEN data[CHOOSE k \in 1..Len(data) :
              /\ data[k].name = trimmedName
              /\ \A m \in 1..(k - 1) : data[m].name # trimmedName].id
  ELSE NoId

\* a lookup that takes the first term of the search response
existingTermId_firstHit(data, trimmedName) ==
  IF data # <<>> THEN data[1].id ELSE NoId

\* searchResponse.data.find(term => term.name.toLowerCase() ===
\*                                  trimmedName.toLowerCase())
existingTermId(data, trimmedName) ==
  IF \E k \in 1..Len(data) : toLowerCase(data[k].name) = toLowerCase(trimmedName)
  THEN data[CHOOSE k \in 1..Len(data) :
              /\ toLowerCase(data[k].name) = toLowerCase(trimmedName)
              /\ \A m \in 1..(k - 1) :
                   toLowerCase(data[m].name) # toLowerCase(trimmedName)].id
  ELSE NoId

\* a scan that goes through the whole page and keeps the last match
pageMatch_lastMatch(data, title) ==
  LET wanted  == normalizeTitle(title)
      isMatch(k) == normalizeTitle(data[k].title) = wanted
  IN IF \E k \in 1..Len(data) : isMatch(k)
     THEN data[CHOOSE k \in 1..Len(data) :
                 isMatch(k) /\ \A m \in (k + 1)..Len(data) : ~isMatch(m)].id
     ELSE NoId

\* the scan of one listing page in findPostByTitle: the id of the first post
\* whose normalised title equals the normalised search title, or NoId
pageMatch(data, title) ==
  LET wanted  == normalizeTitle(title)
      titles  == {data[k].title : k \in 1..Len(data)}
      equal   == {t \in titles : normalizeTitle(t) = wanted}
      isMatch(k) == data[k].title \in equal
  IN IF equal # {}
     THEN data[CHOOSE k \in 1..Len(data) :
                 isMatch(k) /\ \A m \in 1..(k - 1) : ~isMatch(m)].id
     ELSE NoId

\* JSON.parse(row.acf_json) succeeds (built-in; the texts of the inputs)
jsonParses(text) ==
  LET t == trim(text)
  IN t = <<"{","}">> \/ t = <<"[","]">> \/ (Len(t) = 1 /\ IsDigit(t[1]))


(***************************************************************************)
(* Media helpers                                                           *)
(***************************************************************************)
startsWith(s, pre) == Len(s) >= Len(pre) /\ SubSeq(s, 1, Len(pre)) = pre

HttpPrefix  == <<"h","t","t","p",":","/","/">>
HttpsPrefix == <<"h","t","t","p","s",":","/","/">>
isUrl(s) == startsWith(s, HttpPrefix) \/ startsWith(s, HttpsPrefix)

IsIdChar(c) ==
  \/ \E k \in 1..26 : UpperChars[k] = c \/ LowerChars[k] = c
  \/ IsDigit(c) \/ c = "_" \/ c = "-"

\* the longest run of id characters of s starting at position i
RECURSIVE idRun(_, _)
idRun(s, i) ==
  IF i > Len(s) \/ ~IsIdChar(s[i]) THEN <<>>
  ELSE <<s[i]>> \o idRun(s, i + 1)

\* url.match(marker + '([a-zA-Z0-9_-]+)') : the captured id, or <<>>
captureAfter(url, marker) ==
  LET hit(k) == /\ k + Len(marker) <= Len(url)
                /\ SubSeq(url, k, k + Len(marker) - 1) = marker
                /\ IsIdChar(url[k + Len(marker)])
  IN IF \E k \in 1..Len(url) : hit(k)
     THEN idRun(url, (CHOOSE k \in 1..Len(url) :
                        hit(k) /\ \A m \in 1..(k - 1) : ~hit(m)) + Len(marker))
     ELSE <<>>

DriveHost == <<"d","r","i","v","e",".","g","o","o","g","l","e",".","c","o","m">>
DriveDirect ==
  <<"h","t","t","p","s",":","/","/">> \o DriveHost \o
  <<"/","u","c","?","e","x","p","o","r","t","=","d","o","w","n","l","o","a","d",
    "&","i","d","=">>

convertGoogleDriveUrl(url) ==
  IF url = <<>> THEN url
  ELSE IF Contains(url, DriveHost)
  THEN LET byPath  == captureAfter(url, <<"/","d","/">>)
           byQuery == captureAfter(url, <<"i","d","=">>)
           fileId  == IF byPath # <<>> THEN byPath ELSE byQuery
       IN IF fileId # <<>> THEN DriveDirect \o fileId ELSE url
  ELSE url

\* new URL(imageUrl).pathname
urlPathname(url) ==
  LET rest  == IF startsWith(url, HttpsPrefix)
               THEN SubSeq(url, Len(HttpsPrefix) + 1, Len(url))
               ELSE SubSeq(url, Len(HttpPrefix) + 1, Len(url))
      slash == firstIndexFrom(rest, "/", 1)
      q     == firstIndexFrom(rest, "?", 1)
      h     == firstIndexFrom(rest, "#", 1)
      stop  == Min(IF q = 0 THEN Len(rest) + 1 ELSE q,
                   IF h = 0 THEN Len(rest) + 1 ELSE h)
  IN IF slash = 0 \/ slash > stop THEN <<"/">>
     ELSE SubSeq(rest, slash, stop - 1)

RECURSIVE dropTrailingSlashes(_)
dropTrailingSlashes(s) ==
  IF s # <<>> /\ s[Len(s)] = "/"
  THEN dropTrailingSlashes(SubSeq(s, 1, Len(s) - 1)) ELSE s

lastIndexOf(s, c) ==
  IF \E k \in 1..Len(s) : s[k] = c
  THEN CHOOSE k \in 1..Len(s) : s[k] = c /\ \A m \in (k + 1)..Len(s) : s[m] # c
  ELSE 0

\* path.basename
basename(p) ==
  LET q == dropTrailingSlashes(p)
  IN SubSeq(q, lastIndexOf(q, "/") + 1, Len(q))

\* path.extname(fileName).replace('.', '')
extOf(fileName) ==
  LET b   == basename(fileName)
      dot == lastIndexOf(b, ".")
  IN IF dot <= 1 THEN <<>> ELSE SubSeq(b, dot + 1, Len(b))

\* the content types of the download responses of the model; "" is a
\* response without the header
HtmlTypes == {"text/html", "text/html; charset=utf-8"}
ContentTypes == HtmlTypes \cup {"image/png", "application/x-unknown", ""}

\* mime.extension(contentType) : <<>> stands for false
mimeExtension(contentType) ==
  CASE contentType = "image/png" -> <<"p","n","g">>
    [] contentType \in HtmlTypes -> <<"h","t","m","l">>
    [] OTHER -> <<>>

\* mime.lookup(path) : "" stands for false
mimeLookup(p) ==
  LET e == extOf(p)
  IN CASE e = <<"p","n","g">> -> "image/png"
       [] e = <<"j","p","g">> -> "image/jpeg"
       [] OTHER -> ""

\* contentDisposition.match(/filename="?([^"]+)"?/) : the capture, or <<>>
RECURSIVE untilQuote(_, _)
untilQuote(s, i) ==
  IF i > Len(s) \/ s[i] = "\"" THEN <<>> ELSE <<s[i]>> \o untilQuote(s, i + 1)

FilenameKey == <<"f","i","l","e","n","a","m","e","=">>

dispositionFilename(header) ==
  LET n == Len(FilenameKey)
      at(k) == k + n - 1 <= Len(header) /\ SubSeq(header, k, k + n - 1) = FilenameKey
      cap(k) == LET viaQuote == IF k + n <= Len(header) /\ header[k + n] = "\""
                                THEN untilQuote(header, k + n + 1) ELSE <<>>
                IN IF viaQuote # <<>> THEN viaQuote ELSE untilQuote(header, k + n)
      hit(k) == at(k) /\ cap(k) # <<>>
  IN IF \E k \in 1..Len(header) : hit(k)
     THEN cap(CHOOSE k \in 1..Len(header) : hit(k) /\ \A m \in 1..(k - 1) : ~hit(m))
     ELSE <<>>

\* fileName.replace(new RegExp('\\.' + currentExt + '$'), '.' + extFromMime)
replaceExt(fileName, currentExt, ext) ==
  SubSeq(fileName, 1, Len(fileName) - Len(currentExt) - 1) \o <<".">> \o ext

\* downloadImageFromUrl of the uploader, from the response on: the asset, or
\* ok = FALSE for the null it returns
uploadDownloaded(imageUrl, resp) ==
  IF resp.contentType \in HtmlTypes THEN [NoAsset EXCEPT !.src = imageUrl]
  ELSE
    LET viaHeader == dispositionFilename(resp.contentDisposition)
        viaPath   == basename(urlPathname(imageUrl))
        name0 == IF resp.contentDisposition # <<>>
                 THEN IF viaHeader # <<>> THEN viaHeader
                      ELSE <<"i","m","a","g","e",".","j","p","g">>
                 ELSE IF viaPath # <<>> THEN viaPath ELSE <<"i","m","a","g","e">>
        ext   == mimeExtension(resp.contentType)
        cur   == extOf(name0)
        name1 == IF ext = <<>> \/ cur = ext THEN name0
                 ELSE IF cur = <<>> \/ cur = <<"u","c">>
                      THEN name0 \o <<".">> \o ext
                      ELSE replaceExt(name0, cur, ext)
        mt    == IF resp.contentType # "" THEN resp.contentType
                 ELSE IF mimeLookup(imageUrl) # "" THEN mimeLookup(imageUrl)
                 ELSE "image/jpeg"
    IN [ok |-> TRUE, fileName |-> name1, mimeType |-> mt, src |-> imageUrl]

\* downloadImageFromUrl of the updater, from the response on
updateDownloaded(imageUrl, resp) ==
  LET viaPath == basename(urlPathname(imageUrl))
      mt == IF resp.contentType # "" THEN resp.contentType
            ELSE IF mimeLookup(imageUrl) # "" THEN mimeLookup(imageUrl)
            ELSE "image/jpeg"
  IN [ ok |-> TRUE,
       fileName |-> IF viaPath # <<>> THEN viaPath
                    ELSE <<"i","m","a","g","e",".","j","p","g">>,
       mimeType |-> mt, src |-> imageUrl ]

\* the local files that exist (fs.existsSync) and can be read
LocalFiles == { <<"o","k">> }

\* the local paths that exist and that fs.readFileSync cannot read (a
\* directory, a file without read permission)
UnreadablePaths == { <<"d">> }

\* the asset read from a local path
localAsset(p) ==
  [ ok |-> TRUE, fileName |-> basename(p),
    mimeType |-> IF mimeLookup(p) # "" THEN mimeLookup(p)
                 ELSE "application/octet-stream",
    src |-> p ]

\* the responses a download may get
DownloadResponses ==
  { [contentType |-> "image/png", contentDisposition |-> <<>>],
    [contentType |-> "text/html", contentDisposition |-> <<>>],
    [contentType |-> "", contentDisposition |->
        FilenameKey \o <<"\"","a",".","j","p","g","\"">>] }


(***************************************************************************)
(* The row functions: createOrUpdatePost (uploader), updatePost (updater). *)
(* Each operator below is the synchronous code between two awaits; it      *)
(* takes the invocation's local state and returns it at the next await,    *)
(* or at the end of the batch (pc "finish"), or where an exception left    *)
(* the batch function (pc "threw").  `out` collects the results pushed on  *)
(* the way.                                                                *)
(***************************************************************************)
PutIf(obj, cond, k, v) == IF cond THEN Put(obj, k, v) ELSE obj

\* if (progressCallback) progressCallback({ type, rowNumber, .. }): the
\* events the callback has been handed, in order (rowNumber 0: none)
emit(s, type, rowNumber) ==
  IF s.cb = "none" THEN s
  ELSE [s EXCEPT !.events = Append(@, [type |-> type, rowNumber |-> rowNumber])]

\* progressCallback(event) throws
CbThrows(s, type) ==
  \/ s.cb = "throwsOnSuccess" /\ type = "success"
  \/ s.cb = "throwsOnError" /\ type = "error"

RECURSIVE RowReturn(_)

\* the catch block of the row function
RowFail(s, msg) ==
  LET s1 == emit([s EXCEPT !.result.error = msg], "error", s.i)
  IN IF CbThrows(s, "error") THEN [s1 EXCEPT !.pc = "threw"]
     ELSE RowReturn(s1)

\* the code after the create / update call returned
RowSuccess(s, action, id, status) ==
  LET s1 == emit([s EXCEPT !.result.action = action, !.result.postId = id,
                           !.result.status = status], "success", s.i)
  IN IF CbThrows(s, "success") THEN RowFail(s1, ErrCallback)
     ELSE RowReturn(s1)

\* the SEO fields of the uploader's payload
seoFields(row, obj) ==
  LET metaTitle == trim(row.meta_title)
      metaDesc  == trim(row.meta_description)
      focusKw   == trim(row.focus_keyword)
      o1 == PutIf(obj, metaTitle # <<>>, "meta_title", metaTitle)
      o2 == PutIf(o1, metaTitle # <<>>, "_yoast_wpseo_title", metaTitle)
      o3 == PutIf(o2, metaTitle # <<>>, "rank_math_title", metaTitle)
      o4 == PutIf(o3, metaDesc # <<>>, "meta_description", metaDesc)
      o5 == PutIf(o4, metaDesc # <<>>, "_yoast_wpseo_metadesc", metaDesc)
      o6 == PutIf(o5, metaDesc # <<>>, "rank_math_description", metaDesc)
      o7 == PutIf(o6, focusKw # <<>>, "_yoast_wpseo_focuskw", focusKw)
  IN PutIf(o7, focusKw # <<>>, "rank_math_focus_keyword", focusKw)

\* a row function that posts the payload without looking whether it is empty
AfterMedia_noEmptyCheck(s) ==
  IF s.mode = "upload"
  THEN [s EXCEPT !.postData = seoFields(s.rows[s.i], @),
                 !.pc = "title_page", !.page = 1]
  ELSE [s EXCEPT !.pc = "post_delay"]

\* the code after the media step
AfterMedia(s) ==
  IF s.mode = "upload"
  THEN [s EXCEPT !.postData = seoFields(s.rows[s.i], @),
                 !.pc = "title_page", !.page = 1]
  ELSE IF DOMAIN s.postData = {} THEN RowFail(s, ErrNothingToUpdate)
  ELSE [s EXCEPT !.pc = "post_delay"]

\* if (mediaId) postData.featured_media = mediaId
WithMedia(s, mediaId) ==
  AfterMedia([s EXCEPT !.postData = PutIf(@, mediaId # NoId, "featured_media", mediaId)])

\* an image step that uploads a local file without the pacing sleep
MediaStage_noSleep(s) ==
  LET row == s.rows[s.i]
      imagePath == IF NonBlank(row.featured_image_path)
                   THEN trim(row.featured_image_path)
                   ELSE trim(row.featured_image_url)
      processedUrl == trim(imagePath)
  IN IF imagePath = <<>> THEN AfterMedia(s)
     ELSE IF isUrl(processedUrl)
     THEN [s EXCEPT !.pc = "media_download",
                    !.img = [NoAsset EXCEPT !.src =
                               IF s.mode = "upload"
                               THEN convertGoogleDriveUrl(processedUrl)
                               ELSE processedUrl]]
     ELSE IF processedUrl \in LocalFiles
     THEN [s EXCEPT !.pc = "media_upload", !.img = localAsset(processedUrl)]
     ELSE IF processedUrl \in UnreadablePaths THEN RowFail(s, ErrReadFile)
     ELSE WithMedia(s, NoId)

\* the image step up to its first await: uploadMedia(imagePath)
MediaStage(s) ==
  LET row == s.rows[s.i]
      imagePath == IF NonBlank(row.featured_image_path)
                   THEN trim(row.featured_image_path)
                   ELSE trim(row.featured_image_url)
      processedUrl == trim(imagePath)
  IN IF imagePath = <<>> THEN AfterMedia(s)
     ELSE IF isUrl(processedUrl)
     THEN [s EXCEPT !.pc = "media_download",
                    !.img = [NoAsset EXCEPT !.src =
                               IF s.mode = "upload"
                               THEN convertGoogleDriveUrl(processedUrl)
                               ELSE processedUrl]]
     ELSE IF processedUrl \in LocalFiles
     THEN [s EXCEPT !.pc = "media_delay", !.img = localAsset(processedUrl)]
     ELSE IF processedUrl \in UnreadablePaths THEN RowFail(s, ErrReadFile)
     ELSE WithMedia(s, NoId)

\* resolveTerms(row.tags, 'tags') up to its first await
TagsStage(s) ==
  LET row == s.rows[s.i]
  IN IF NonBlank(row.tags) /\ termNames(row.tags) # <<>>
     THEN [s EXCEPT !.pc = "term_search", !.tax = "tags",
                    !.names = termNames(row.tags), !.termIds = <<>>]
     ELSE MediaStage(s)

\* resolveTerms(row.categories, 'categories') up to its first await
CatsStage(s) ==
  LET row == s.rows[s.i]
  IN IF NonBlank(row.categories) /\ termNames(row.categories) # <<>>
     THEN [s EXCEPT !.pc = "term_search", !.tax = "categories",
                    !.names = termNames(row.categories), !.termIds = <<>>]
     ELSE TagsStage(s)

\* resolveTerms returned: if (ids.length > 0) postData[taxonomy] = ids
AfterTerms(s) ==
  LET s1 == [s EXCEPT !.postData = PutIf(@, s.termIds # <<>>, s.tax, s.termIds)]
  IN IF s.tax = "categories" THEN TagsStage(s1) ELSE MediaStage(s1)

\* the uploader's postData before the first await
uploadPostData(row) ==
  LET o1 == Put(EmptyObj, "title", trim(row.title))
      o2 == Put(o1, "content", trim(row.content))
      o3 == Put(o2, "status", IF NonBlank(row.status) THEN trim(row.status)
                              ELSE default_status)
      o4 == PutIf(o3, NonBlank(row.slug), "slug", trim(row.slug))
      o5 == PutIf(o4, NonBlank(row.excerpt), "excerpt", trim(row.excerpt))
  IN PutIf(o5, NonBlank(row.acf_json) /\ jsonParses(row.acf_json),
           "acf", trim(row.acf_json))

\* an updater that sends the text of acf_json when it cannot be parsed
updateData_keepsBadAcf(row) ==
  LET o1 == PutIf(EmptyObj, NonBlank(row.title), "title", trim(row.title))
      o2 == PutIf(o1, NonBlank(row.content), "content", trim(row.content))
      o3 == PutIf(o2, NonBlank(row.status), "status", trim(row.status))
      o4 == PutIf(o3, NonBlank(row.slug), "slug", trim(row.slug))
      o5 == PutIf(o4, NonBlank(row.excerpt), "excerpt", trim(row.excerpt))
  IN PutIf(o5, NonBlank(row.acf_json), "acf", trim(row.acf_json))

\* an updater that fills in the default status as the uploader does
updateData_defaultStatus(row) ==
  LET o1 == PutIf(EmptyObj, NonBlank(row.title), "title", trim(row.title))
      o2 == PutIf(o1, NonBlank(row.content), "content", trim(row.content))
      o3 == Put(o2, "status", IF NonBlank(row.status) THEN trim(row.status)
                              ELSE default_status)
      o4 == PutIf(o3, NonBlank(row.slug), "slug", trim(row.slug))
      o5 == PutIf(o4, NonBlank(row.excerpt), "excerpt", trim(row.excerpt))
  IN PutIf(o5, NonBlank(row.acf_json) /\ jsonParses(row.acf_json),
           "acf", trim(row.acf_json))

\* the updater's updateData before the term steps
updateData(row) ==
  LET o1 == PutIf(EmptyObj, NonBlank(row.title), "title", trim(row.title))
      o2 == PutIf(o1, NonBlank(row.content), "content", trim(row.content))
      o3 == PutIf(o2, NonBlank(row.status), "status", trim(row.status))
      o4 == PutIf(o3, NonBlank(row.slug), "slug", trim(row.slug))
      o5 == PutIf(o4, NonBlank(row.excerpt), "excerpt", trim(row.excerpt))
  IN PutIf(o5, NonBlank(row.acf_json) /\ jsonParses(row.acf_json),
           "acf", trim(row.acf_json))

\* the row function from its call to its first await
BeginRow(s) ==
  LET row == s.rows[s.i]
      s0 == [s EXCEPT !.result = NewResult(s.i, row), !.postData = EmptyObj,
                      !.target = NoId, !.names = <<>>, !.termIds = <<>>,
                      !.img = NoAsset, !.page = 0, !.attempted = @ + 1,
                      !.rowWrites = 0]
  IN IF s.mode = "upload"
     THEN IF ~NonBlank(row.title) THEN RowFail(s0, ErrMissingTitle)
          ELSE IF ~NonBlank(row.content) THEN RowFail(s0, ErrMissingContent)
          ELSE CatsStage([s0 EXCEPT !.postData = uploadPostData(row)])
     ELSE IF NonBlank(row.post_id) THEN [s0 EXCEPT !.pc = "id_lookup"]
          ELSE IF NonBlank(row.slug) THEN [s0 EXCEPT !.pc = "slug_lookup"]
          ELSE IF NonBlank(row.title)
               THEN [s0 EXCEPT !.pc = "title_page", !.page = 1]
          ELSE RowFail(s0, ErrMissingIdentifier)

\* a row loop that records the outcome of the last row only
RowReturn_pushLastOnly(s) ==
  LET s1 == [s EXCEPT !.out = IF s.i = Len(s.rows)
                               THEN Append(@, s.result) ELSE @,
                      !.i = @ + 1]
  IN IF s1.i > Len(s1.rows) THEN [s1 EXCEPT !.pc = "finish"]
     ELSE BeginRow(s1)

\* a row loop that records only the rows that succeeded
RowReturn_pushOnSuccess(s) ==
  LET s1 == [s EXCEPT !.out = IF s.result.error = NoError
                               THEN Append(@, s.result) ELSE @,
                      !.i = @ + 1]
  IN IF s1.i > Len(s1.rows) THEN [s1 EXCEPT !.pc = "finish"]
     ELSE BeginRow(s1)

\* the row function returned: logResults.push(result), then the next row
RowReturn(s) ==
  LET s1 == [s EXCEPT !.out = Append(@, s.result), !.i = @ + 1]
  IN IF s1.i > Len(s1.rows) THEN [s1 EXCEPT !.pc = "finish"]
     ELSE BeginRow(s1)

\* updatePost: the target was found
Resolved(s, id) ==
  [s EXCEPT !.target = id, !.result.postId = id, !.pc = "fetch_existing"]

\* a row function that looks the slug up before it looks at the result of
\* the title search
AfterTitle_slugFirst(s, found) ==
  IF s.mode = "upload"
  THEN IF "slug" \in DOMAIN s.postData THEN [s EXCEPT !.pc = "slug_lookup"]
       ELSE IF found # NoId THEN RowFail(s, ErrDuplicate)
       ELSE [s EXCEPT !.target = NoId, !.pc = "post_delay"]
  ELSE IF found # NoId THEN Resolved(s, found)
       ELSE RowFail(s, ErrTitleNotFound)

\* findPostByTitle returned
AfterTitle(s, found) ==
  IF s.mode = "upload"
  THEN IF found # NoId THEN RowFail(s, ErrDuplicate)
       ELSE IF "slug" \in DOMAIN s.postData THEN [s EXCEPT !.pc = "slug_lookup"]
       ELSE [s EXCEPT !.target = NoId, !.pc = "post_delay"]
  ELSE IF found # NoId THEN Resolved(s, found)
       ELSE RowFail(s, ErrTitleNotFound)

\* findPostBySlug returned
AfterSlug(s, found) ==
  IF s.mode = "upload" THEN [s EXCEPT !.target = found, !.pc = "post_delay"]
  ELSE IF found # NoId THEN Resolved(s, found)
       ELSE RowFail(s, ErrSlugNotFound)

\* an updater that goes on to the next identifier when the id is not found
AfterId_fallsBack(s, found) ==
  IF found # NoId THEN Resolved(s, found)
  ELSE IF NonBlank(s.rows[s.i].slug) THEN [s EXCEPT !.pc = "slug_lookup"]
  ELSE RowFail(s, ErrIdNotFound)

\* findPostById returned
AfterId(s, found) ==
  IF found # NoId THEN Resolved(s, found) ELSE RowFail(s, ErrIdNotFound)


(***************************************************************************)
(* The batch functions: processCsvFile / processUpdateCsvFile / main       *)
(***************************************************************************)
failedCount(results) ==
  Cardinality({k \in 1..Len(results) : results[k].error # NoError})

\* the step ends: the results pushed on the way reach the module's
\* logResults, and a finished loop computes the summary from logResults
Commit(p, s2) ==
  LET lr   == logResults[s2.mode] \o s2.out
      done == s2.pc = "finish"
      s3   == [s2 EXCEPT
                 !.out = <<>>,
                 !.pushed = @ + Len(s2.out),
                 !.pc = IF done
                        THEN (IF host = "cli" THEN "exited" ELSE "returned")
                        ELSE @,
                 !.summary = IF done /\ host = "server"
                             THEN [ total   |-> Len(s2.rows),
                                    success |-> Len(lr) - failedCount(lr),
                                    failed  |-> failedCount(lr),
                                    results |-> lr ]
                             ELSE @,
                 !.exitCode = IF done /\ host = "cli"
                              THEN (IF failedCount(lr) > 0 THEN 1 ELSE 0)
                              ELSE @]
  IN /\ inv' = [inv EXCEPT ![p] = s3]
     /\ logResults' = [logResults EXCEPT ![s2.mode] = lr]

\* a main that ends every early exit with code 0
Abort_exitsZero(s, code) ==
  IF host = "cli" THEN [s EXCEPT !.pc = "exited", !.exitCode = 0]
  ELSE [s EXCEPT !.pc = "threw"]

\* a batch-level failure: the exported functions throw, main exits
Abort(s, code) ==
  IF host = "cli" THEN [s EXCEPT !.pc = "exited", !.exitCode = code]
  ELSE [s EXCEPT !.pc = "threw"]

\* a batch function that keeps the outcomes the module has accumulated
Start_keepsLog(p, job) ==
  /\ inv[p].pc = "idle"
  /\ \A q \in Inv : q < p => inv[q].pc # "idle"
  /\ host = "cli" => p = 1
  /\ inv' = [inv EXCEPT ![p] =
                emit([Idle EXCEPT !.pc = "probe", !.mode = job.mode,
                                  !.cb = IF host = "cli" THEN "none" ELSE job.cb,
                                  !.exists = job.exists,
                                  !.rows = job.rows], "info", 0)]
  /\ UNCHANGED logResults
  /\ overlapped' = [q \in Inv |->
                      IF q = p THEN \E r \in Inv \ {p} : Active(r)
                      ELSE overlapped[q] \/ Active(q)]
  /\ UNCHANGED <<host, posts, fillers, oldPosts, terms, media>>
  /\ UNCHANGED faults
  /\ UNCHANGED <<input, output>>

\* a batch function is called: it resets the module's accumulator (the
\* exported functions only) and issues the connectivity probe
Start(p, job) ==
  /\ inv[p].pc = "idle"
  /\ \A q \in Inv : q < p => inv[q].pc # "idle"
  /\ host = "cli" => p = 1
  /\ inv' = [inv EXCEPT ![p] =
                emit([Idle EXCEPT !.pc = "probe", !.mode = job.mode,
                                  !.cb = IF host = "cli" THEN "none" ELSE job.cb,
                                  !.exists = job.exists,
                                  !.rows = job.rows], "info", 0)]
  /\ logResults' = IF host = "server"
                   THEN [logResults EXCEPT ![job.mode] = <<>>]
                   ELSE logResults
  /\ overlapped' = [q \in Inv |->
                      IF q = p THEN \E r \in Inv \ {p} : Active(r)
                      ELSE overlapped[q] \/ Active(q)]
  /\ UNCHANGED <<host, posts, fillers, oldPosts, terms, media>>
  /\ UNCHANGED faults
  /\ UNCHANGED <<input, output>>

\* a batch function that goes on to the CSV whatever the probe returned
AfterProbe_unchecked(s, isConnected) ==
  emit(emit([s EXCEPT !.isConnected = IF isConnected THEN "yes" ELSE "no",
                      !.pc = "load"], "info", 0), "info", 0)

\* the batch function after the probe returned: if (!isConnected) it
\* throws (the exported functions) or exits with code 1 (main)
AfterProbe(s, isConnected) ==
  IF isConnected
  THEN emit(emit([s EXCEPT !.isConnected = "yes", !.pc = "load"],
                 "info", 0), "info", 0)
  ELSE Abort([s EXCEPT !.isConnected = "no"], 1)

\* checkConnectivityWithApi: GET /posts?per_page=1; any failure of the
\* request makes it return false
Probe(p) ==
  /\ inv[p].pc = "probe"
  /\ \E ok \in Answers :
       /\ faults' = IF ok THEN faults ELSE faults + 1
       /\ inv' = [inv EXCEPT ![p] = AfterProbe(@, ok)]
  /\ UNCHANGED <<host, posts, fillers, oldPosts, terms, media, logResults,
                 overlapped>>
  /\ UNCHANGED <<input, output>>

\* loadCsv, the empty-file check, the two info events, and the first row up
\* to its first await
Load(p) ==
  /\ inv[p].pc = "load"
  /\ IF ~inv[p].exists
     THEN /\ inv' = [inv EXCEPT ![p] = Abort(@, 1)]
          /\ UNCHANGED logResults
     ELSE IF inv[p].rows = <<>>
     THEN /\ inv' = [inv EXCEPT ![p] = Abort(@, 0)]
          /\ UNCHANGED logResults
     ELSE Commit(p, BeginRow(emit(emit([inv[p] EXCEPT !.i = 1],
                                       "info", 0), "info", 0)))
  /\ UNCHANGED <<host, posts, fillers, oldPosts, terms, media, overlapped>>
  /\ UNCHANGED faults
  /\ UNCHANGED <<input, output>>

(***************************************************************************)
(* Term resolution: resolveTerms / getOrCreateTerm                         *)
(***************************************************************************)
\* a term loop that gives up the remaining names when one name fails
TermGot_stopsOnFailure(s, id) ==
  [s EXCEPT !.termIds = IF id # NoId THEN Append(@, id) ELSE @,
            !.names = IF id # NoId THEN @ ELSE <<Head(@)>>,
            !.pc = "term_pace"]

\* getOrCreateTerm returned id: if (id) termIds.push(id); then the pacing
\* sleep of resolveTerms is awaited
TermGot(s, id) ==
  [s EXCEPT !.termIds = IF id # NoId THEN Append(@, id) ELSE @,
            !.pc = "term_pace"]

\* GET /{taxonomy}?search=name
TermSearch(p) ==
  /\ inv[p].pc = "term_search"
  /\ \E ok \in Answers :
       /\ faults' = IF ok THEN faults ELSE faults + 1
       /\ LET s == inv[p]
              name == Head(s.names)
              existing == existingTermId(remoteSearchTerms(s.tax, name), name)
          IN inv' = [inv EXCEPT ![p] =
                       IF ~ok THEN TermGot(s, NoId)
                       ELSE IF existing # NoId THEN TermGot(s, existing)
                       ELSE [s EXCEPT !.pc = "term_delay"]]
  /\ UNCHANGED <<host, posts, fillers, oldPosts, terms, media, logResults,
                 overlapped>>
  /\ UNCHANGED <<input, output>>

\* await sleep(config.request_delay_ms) before the create call
TermDelay(p) ==
  /\ inv[p].pc = "term_delay"
  /\ inv' = [inv EXCEPT ![p].pc = "term_create"]
  /\ UNCHANGED <<host, posts, fillers, oldPosts, terms, media, logResults,
                 overlapped>>
  /\ UNCHANGED faults
  /\ UNCHANGED <<input, output>>

\* POST /{taxonomy} {name}
TermCreate(p) ==
  /\ inv[p].pc = "term_create"
  /\ \E ok \in Answers :
       /\ faults' = IF ok THEN faults ELSE faults + 1
       /\ LET id == IF ok THEN NextTermId ELSE NoId
              s  == [inv[p] EXCEPT
                       !.writes = @ + 1, !.rowWrites = @ + 1,
                       !.created = Append(@, [tax |-> inv[p].tax,
                                              name |-> Head(inv[p].names),
                                              id |-> id])]
          IN IF ok
             THEN /\ terms' = [terms EXCEPT ![s.tax] =
                                 Append(@, [id |-> NextTermId, name |-> Head(s.names)])]
                  /\ inv' = [inv EXCEPT ![p] = TermGot(s, NextTermId)]
             ELSE /\ UNCHANGED terms
                  /\ inv' = [inv EXCEPT ![p] = TermGot(s, NoId)]
  /\ UNCHANGED <<host, posts, fillers, oldPosts, media, logResults, overlapped>>
  /\ UNCHANGED <<input, output>>

\* await sleep(config.request_delay_ms) after each name; then the next name,
\* or the code after resolveTerms
TermPace(p) ==
  /\ inv[p].pc = "term_pace"
  /\ LET s == [inv[p] EXCEPT !.names = Tail(@)]
     IN IF s.names # <<>>
        THEN /\ inv' = [inv EXCEPT ![p] = [s EXCEPT !.pc = "term_search"]]
             /\ UNCHANGED logResults
        ELSE Commit(p, AfterTerms(s))
  /\ UNCHANGED <<host, posts, fillers, oldPosts, terms, media, overlapped>>
  /\ UNCHANGED faults
  /\ UNCHANGED <<input, output>>

(***************************************************************************)
(* Media: uploadMedia / downloadImageFromUrl                               *)
(***************************************************************************)
\* axios.get(imageUrl)
MediaDownload(p) ==
  /\ inv[p].pc = "media_download"
  /\ \E ok \in Answers, resp \in DownloadResponses :
       /\ faults' = IF ok THEN faults ELSE faults + 1
       /\ LET s == inv[p]
              got == IF s.mode = "upload" THEN uploadDownloaded(s.img.src, resp)
                     ELSE updateDownloaded(s.img.src, resp)
          IN IF ok /\ got.ok
             THEN /\ inv' = [inv EXCEPT ![p] = [s EXCEPT !.pc = "media_delay", !.img = got]]
                  /\ UNCHANGED logResults
             ELSE Commit(p, WithMedia(s, NoId))
  /\ UNCHANGED <<host, posts, fillers, oldPosts, terms, media, overlapped>>
  /\ UNCHANGED <<input, output>>

\* await sleep(config.request_delay_ms) before the upload
MediaDelay(p) ==
  /\ inv[p].pc = "media_delay"
  /\ inv' = [inv EXCEPT ![p].pc = "media_upload"]
  /\ UNCHANGED <<host, posts, fillers, oldPosts, terms, media, logResults,
                 overlapped>>
  /\ UNCHANGED faults
  /\ UNCHANGED <<input, output>>

\* POST /media
MediaUpload(p) ==
  /\ inv[p].pc = "media_upload"
  /\ \E ok \in Answers :
       /\ faults' = IF ok THEN faults ELSE faults + 1
       /\ LET s == [inv[p] EXCEPT !.writes = @ + 1, !.rowWrites = @ + 1]
          IN IF ok
             THEN /\ media' = Append(media, [id |-> NextMediaId,
                                             fileName |-> s.img.fileName,
                                             mimeType |-> s.img.mimeType,
                                             src |-> s.img.src])
                  /\ Commit(p, WithMedia(s, NextMediaId))
             ELSE /\ UNCHANGED media
                  /\ Commit(p, WithMedia(s, NoId))
  /\ UNCHANGED <<host, posts, fillers, oldPosts, terms, overlapped>>
  /\ UNCHANGED <<input, output>>

(***************************************************************************)
(* Lookups                                                                 *)
(***************************************************************************)
\* a title search that goes on while pages come back full
TitlePage_noCap(p) ==
  /\ inv[p].pc = "title_page"
  /\ \E ok \in Answers :
       /\ faults' = IF ok THEN faults ELSE faults + 1
       /\ LET s == inv[p]
              data == listPage(s.page)
              found == pageMatch(data, trim(s.rows[s.i].title))
          IN IF ~ok THEN Commit(p, AfterTitle(s, NoId))
             ELSE IF data = <<>> THEN Commit(p, AfterTitle(s, NoId))
             ELSE IF found # NoId THEN Commit(p, AfterTitle(s, found))
             ELSE IF Len(data) < perPage THEN Commit(p, AfterTitle(s, NoId))
             ELSE /\ inv' = [inv EXCEPT ![p].page = s.page + 1]
                  /\ UNCHANGED logResults
  /\ UNCHANGED <<host, posts, fillers, oldPosts, terms, media, overlapped>>
  /\ UNCHANGED <<input, output>>

\* findPostByTitle: one listing request and the scan of its page
TitlePage(p) ==
  /\ inv[p].pc = "title_page"
  /\ \E ok \in Answers :
       /\ faults' = IF ok THEN faults ELSE faults + 1
       /\ LET s == inv[p]
              data == listPage(s.page)
              found == pageMatch(data, trim(s.rows[s.i].title))
          IN IF ~ok THEN Commit(p, AfterTitle(s, NoId))
             ELSE IF data = <<>> THEN Commit(p, AfterTitle(s, NoId))
             ELSE IF found # NoId THEN Commit(p, AfterTitle(s, found))
             ELSE IF Len(data) < perPage THEN Commit(p, AfterTitle(s, NoId))
             ELSE IF s.page + 1 > maxPages THEN Commit(p, AfterTitle(s, NoId))
             ELSE /\ inv' = [inv EXCEPT ![p].page = s.page + 1]
                  /\ UNCHANGED logResults
  /\ UNCHANGED <<host, posts, fillers, oldPosts, terms, media, overlapped>>
  /\ UNCHANGED <<input, output>>

\* findPostBySlug: GET /posts?slug=..
SlugLookup(p) ==
  /\ inv[p].pc = "slug_lookup"
  /\ \E ok \in Answers :
       /\ faults' = IF ok THEN faults ELSE faults + 1
       /\ LET s == inv[p]
              found == IF ok THEN remoteIdBySlug(trim(s.rows[s.i].slug)) ELSE NoId
          IN Commit(p, AfterSlug(s, found))
  /\ UNCHANGED <<host, posts, fillers, oldPosts, terms, media, overlapped>>
  /\ UNCHANGED <<input, output>>

\* findPostById: GET /posts/{post_id}
IdLookup(p) ==
  /\ inv[p].pc = "id_lookup"
  /\ \E ok \in Answers :
       /\ faults' = IF ok THEN faults ELSE faults + 1
       /\ LET s == inv[p]
              id == pathId(trim(s.rows[s.i].post_id))
              found == IF ok /\ remoteHasId(id) THEN id ELSE NoId
          IN Commit(p, AfterId(s, found))
  /\ UNCHANGED <<host, posts, fillers, oldPosts, terms, media, overlapped>>
  /\ UNCHANGED <<input, output>>

\* updatePost: GET /posts/{postId}, then updateData and the term steps
FetchExisting(p) ==
  /\ inv[p].pc = "fetch_existing"
  /\ \E ok \in Answers :
       /\ faults' = IF ok THEN faults ELSE faults + 1
       /\ LET s == inv[p]
          IN IF ok /\ remoteHasId(s.target)
             THEN Commit(p, CatsStage([s EXCEPT !.postData = updateData(s.rows[s.i])]))
             ELSE Commit(p, RowFail(s, ErrRemote))
  /\ UNCHANGED <<host, posts, fillers, oldPosts, terms, media, overlapped>>
  /\ UNCHANGED <<input, output>>

(***************************************************************************)
(* The post write                                                          *)
(***************************************************************************)
\* await sleep(config.request_delay_ms) before the create / update call
PostDelay(p) ==
  /\ inv[p].pc = "post_delay"
  /\ inv' = [inv EXCEPT ![p].pc = "post_write"]
  /\ UNCHANGED <<host, posts, fillers, oldPosts, terms, media, logResults,
                 overlapped>>
  /\ UNCHANGED faults
  /\ UNCHANGED <<input, output>>

\* POST /posts/{id} (an existing target) or POST /posts
PostWrite(p) ==
  /\ inv[p].pc = "post_write"
  /\ \E ok \in Answers :
       /\ faults' = IF ok THEN faults ELSE faults + 1
       /\ LET s == [inv[p] EXCEPT !.writes = @ + 1, !.rowWrites = @ + 1]
          IN IF s.target # NoId
             THEN IF ok /\ remoteHasId(s.target)
                  THEN /\ posts' = remoteUpdateSeq(posts, s.target, s.postData)
                       /\ oldPosts' = remoteUpdateSeq(oldPosts, s.target, s.postData)
                       /\ Commit(p, RowSuccess(s, "updated", s.target,
                                     remoteApply(remotePost(s.target), s.postData).status))
                  ELSE /\ UNCHANGED <<posts, oldPosts>>
                       /\ Commit(p, RowFail(s, ErrRemote))
             ELSE IF ok
                  THEN /\ posts' = remoteCreate(s.postData)
                       /\ UNCHANGED oldPosts
                       /\ Commit(p, RowSuccess(s, "created", NextPostId,
                                               s.postData["status"]))
                  ELSE /\ UNCHANGED <<posts, oldPosts>>
                       /\ Commit(p, RowFail(s, ErrRemote))
  /\ UNCHANGED <<host, fillers, terms, media, overlapped>>
  /\ UNCHANGED <<input, output>>

(***************************************************************************)
(* Specification                                                           *)
(***************************************************************************)
SeedPost == [id |-> 1, title |-> <<"a"," ","B">>, slug |-> <<"s">>, status |-> <<"p">>]
BigSite == perPage * maxPages

\* the runs considered: the process (server or command line) and the site
\* it talks to: empty, holding one post, or holding the same post behind
\* maxPages full pages of newer posts
Site(f, ps, old) == [fillers |-> f, posts |-> ps, oldPosts |-> old]
Scenarios ==
  { <<"server", Site(0, <<>>, <<>>)>>,
    <<"server", Site(0, <<SeedPost>>, <<>>)>>,
    <<"cli", Site(0, <<>>, <<>>)>>,
    <<"cli", Site(0, <<SeedPost>>, <<>>)>>,
    <<"cli", Site(BigSite, <<>>, <<SeedPost>>)>> }

Init ==
  /\ \E sc \in Scenarios :
       /\ host = sc[1]
       /\ fillers = sc[2].fillers
       /\ posts = sc[2].posts
       /\ oldPosts = sc[2].oldPosts
  /\ terms = [categories |-> << [id |-> 1, name |-> <<"n","x">>] >>, tags |-> <<>>]
  /\ media = <<>>
  /\ logResults = [upload |-> <<>>, update |-> <<>>]
  /\ inv = [p \in Inv |-> Idle]
  /\ overlapped = [p \in Inv |-> FALSE]
  /\ faults = 0
  /\ input = <<>>
  /\ output = <<>>

Next ==
  \E p \in Inv :
    \/ \E job \in Jobs : Start(p, job)
    \/ Probe(p)
    \/ Load(p)
    \/ TermSearch(p)
    \/ TermDelay(p)
    \/ TermCreate(p)
    \/ TermPace(p)
    \/ MediaDownload(p)
    \/ MediaDelay(p)
    \/ MediaUpload(p)
    \/ TitlePage(p)
    \/ SlugLookup(p)
    \/ IdLookup(p)
    \/ FetchExisting(p)
    \/ PostDelay(p)
    \/ PostWrite(p)

Spec == Init /\ [][Next]_vars

(***************************************************************************)
(* normalizeTitle applied on its own, to the text it returned              *)
(***************************************************************************)
\* the pieces titles are put together from: the characters the replacements
\* look for, a letter of either case, a digit, a space, entities of the
\* fixed set and their tails, an unknown entity's parts, a tag
Pieces ==
  { <<"<">>, <<">">>, <<"&">>, <<";">>, <<"#">>, <<"3">>, <<"a">>, <<"B">>,
    <<" ">>, <<"&","a","m","p",";">>, <<"a","m","p",";">>,
    <<"&","n","b","s","p",";">>, <<"&","#","3","9",";">>,
    <<"&","#","0","3","8",";">>, <<"&","q","u","o","t",";">>,
    <<"<","b",">">> }

\* number of pieces of the longest title
MaxPieces == 3

RECURSIVE Texts(_)
Texts(n) ==
  IF n = 0 THEN {<<>>}
  ELSE Texts(n - 1) \cup {t \o q : t \in Texts(n - 1), q \in Pieces}

\* the program's state while a function is applied on its own
Quiet ==
  /\ host = "cli"
  /\ fillers = 0 /\ posts = <<>> /\ oldPosts = <<>>
  /\ terms = [categories |-> <<>>, tags |-> <<>>]
  /\ media = <<>>
  /\ logResults = [upload |-> <<>>, update |-> <<>>]
  /\ inv = [p \in Inv |-> Idle]
  /\ overlapped = [p \in Inv |-> FALSE]
  /\ faults = 0

InitNormalize ==
  /\ Quiet
  /\ input \in Texts(MaxPieces)
  /\ output = <<>>

\* normalizeTitle(str): first of the title, then of what it returned
Normalize ==
  /\ Len(output) < 2
  /\ output' = Append(output, normalizeTitle(IF output = <<>> THEN input
                                              ELSE output[Len(output)]))
  /\ UNCHANGED <<host, posts, fillers, oldPosts, terms, media, logResults,
                 inv, overlapped, faults, input>>

SpecNormalize == InitNormalize /\ [][Normalize]_vars

(***************************************************************************)
(* The URL branch of uploadMedia applied on its own, up to the download    *)
(***************************************************************************)
\* the pieces image addresses are put together from
UrlPieces ==
  { DriveHost, <<"h">>, <<"/">>, <<"/","d","/">>, <<"?">>, <<"&">>,
    <<"i","d","=">>, <<"u">>, <<"A">>, <<"b","-">> }

\* number of pieces after the scheme of the longest address
MaxUrlPieces == 4

RECURSIVE UrlTexts(_)
UrlTexts(n) ==
  IF n = 0 THEN {<<>>}
  ELSE UrlTexts(n - 1) \cup {t \o q : t \in UrlTexts(n - 1), q \in UrlPieces}

\* uploadMedia is called with an address that starts with http:// or
\* https://: a scheme, a host, and a path or a query or nothing
InitFetch ==
  /\ Quiet
  /\ input \in {pre \o h \o t :
                  pre \in {HttpPrefix, HttpsPrefix},
                  h \in {DriveHost, <<"h">>},
                  t \in {x \in UrlTexts(MaxUrlPieces) :
                           x = <<>> \/ x[1] \in {"/", "?"}}}
  /\ output = <<>>

\* processedUrl = convertGoogleDriveUrl(processedUrl), then
\* downloadImageFromUrl(processedUrl): output holds the addresses requested
Fetch ==
  /\ output = <<>>
  /\ output' = <<convertGoogleDriveUrl(trim(input))>>
  /\ UNCHANGED <<host, posts, fillers, oldPosts, terms, media, logResults,
                 inv, overlapped, faults, input>>

SpecFetch == InitFetch /\ [][Fetch]_vars

(***************************************************************************)
(* The row functions applied on their own to one row, up to the first      *)
(* await after the payload is built                                        *)
(***************************************************************************)
\* the texts of the acf_json column: blank, JSON, not JSON
AcfTexts ==
  { <<>>, <<" ">>, <<"{","}">>, <<" ","[","]"," ">>, <<"7">>,
    <<"{">>, <<"x">>, <<"[","1">>, <<" ","}","{">> }

AcfRows ==
  { [r EXCEPT !.acf_json = a] :
      r \in {RowAb, RowNoContent, RowNoTitle, RowSlug, RowRich, RowDirImage,
             RowKk, UpdIdOnly, UpdIdStatus, UpdSlug, UpdTitle, UpdNothing},
      a \in AcfTexts }

\* createOrUpdatePost(row, 1, ..) up to its first await; updatePost(row, 1,
\* ..) likewise, from the point where the post was identified and fetched
rowStart(mode, row) ==
  LET b == BeginRow([Idle EXCEPT !.mode = mode, !.rows = <<row>>, !.i = 1])
  IN IF mode = "update" /\ b.i = 1
        /\ b.pc \in {"id_lookup", "slug_lookup", "title_page"}
     THEN CatsStage([Resolved(b, 1) EXCEPT !.postData = updateData(row)])
     ELSE b

InitRow ==
  /\ Quiet
  /\ input \in [mode : {"upload", "update"}, row : AcfRows]
  /\ output = <<>>

\* the row as given, then the same row with the acf_json column blank
StartRow ==
  /\ Len(output) < 2
  /\ output' = Append(output,
                 rowStart(input.mode,
                          IF output = <<>> THEN input.row
                          ELSE [input.row EXCEPT !.acf_json = <<>>]))
  /\ UNCHANGED <<host, posts, fillers, oldPosts, terms, media, logResults,
                 inv, overlapped, faults, input>>

SpecRow == InitRow /\ [][StartRow]_vars

(***************************************************************************)
(* Properties                                                              *)
(***************************************************************************)
\* the title the outcome of a row carries
outcomeTitle(row) == NewResult(0, row).title

\* the row is valid for the uploader: title and content are non-blank
ValidRow(row) == NonBlank(row.title) /\ NonBlank(row.content)

\* the remote holds a post whose normalized title equals that of `title`
TitleHeld(title) ==
  \E k \in 1..Len(ExplicitPosts) :
     normalizeTitle(ExplicitPosts[k].title) = normalizeTitle(trim(title))

\* the outcomes of the rows of invocation p, as the invocation returns them
\* or, while it runs, as the module's accumulator holds them
OwnOutcomes(p) ==
  IF inv[p].pc = "returned" THEN inv[p].summary.results
  ELSE logResults[inv[p].mode]

\* results is one outcome per row of rows, in row order
OnePerRow(results, rows) ==
  /\ Len(results) = Len(rows)
  /\ \A k \in 1..Len(results) :
        /\ results[k].rowNumber = k
        /\ results[k].title = outcomeTitle(rows[k])

\* C1: a batch invocation of processCsvFile / processUpdateCsvFile that no
\* other invocation overlapped and that returns a summary returns exactly
\* one outcome per CSV row, in row order: outcome k has rowNumber k and is
\* the outcome of row k.
C1_OneOutcomePerRowInOrder ==
  \A p \in Inv :
     (inv[p].pc = "returned" /\ ~overlapped[p]) =>
        OnePerRow(inv[p].summary.results, inv[p].rows)

\* a two-row batch returned on its own, its first row failed and its second
\* row written
C1_Witness ==
  \E p \in Inv :
     /\ inv[p].pc = "returned" /\ ~overlapped[p]
     /\ Len(inv[p].rows) >= 2
     /\ inv[p].summary.results[1].error # NoError
     /\ inv[p].summary.results[2].action \in {"created", "updated"}

\* C2: an exception raised while a row is processed (validation, a remote
\* call, reporting the row's result) never leaves the row function: once
\* the batch has begun its rows it does not end by throwing, every row gets
\* its outcome and the batch reaches its summary.
C2_RowExceptionNeverEscapes ==
  \A p \in Inv : inv[p].attempted > 0 => inv[p].pc # "threw"

\* C3: in every outcome the row functions return, error is set exactly
\* when action is none.
C3_ErrorIffNoAction ==
  \A m \in DOMAIN logResults : \A k \in 1..Len(logResults[m]) :
     (logResults[m][k].error # NoError) <=> (logResults[m][k].action = NoAction)

\* C4: in every outcome the row functions return, postId is set exactly
\* when action is created or updated.
C4_PostIdIffWritten ==
  \A m \in DOMAIN logResults : \A k \in 1..Len(logResults[m]) :
     (logResults[m][k].postId # NoId)
        <=> (logResults[m][k].action \in {"created", "updated"})

\* C5: a batch invocation that ran while another one was active still
\* returns exactly one outcome per row of its own CSV, in row order, and no
\* outcome of the other invocation.
C5_OverlapKeepsOwnOutcomes ==
  \A p \in Inv :
     (inv[p].pc = "returned" /\ overlapped[p]) =>
        OnePerRow(inv[p].summary.results, inv[p].rows)

\* C6: in create mode no create or update call is issued for a row while
\* the remote holds a post whose normalized title equals the row's.
C6_DuplicateTitleNeverWritten ==
  \A p \in Inv :
     (inv[p].mode = "upload" /\ inv[p].pc = "post_write") =>
        ~TitleHeld(inv[p].rows[inv[p].i].title)

\* C7: in create mode, when no remote request has failed, a valid row whose
\* slug matches an existing remote post ends as an update of that post
\* (action 'updated', its postId) and creates no post; so a second run of a
\* CSV whose rows carry slugs updates the posts of the first run.
C7_SlugMatchIsUpdated ==
  [][ \A p \in Inv :
        LET s == inv[p]
        IN (/\ s.mode = "upload" /\ Active(p)
            /\ s.i \in 1..Len(s.rows)
            /\ inv'[p].i > s.i
            /\ faults' = 0
            /\ ValidRow(s.rows[s.i])
            /\ NonBlank(s.rows[s.i].slug)
            /\ remoteIdBySlug(trim(s.rows[s.i].slug)) # NoId)
           => LET r == logResults'["upload"][Len(logResults["upload"]) + 1]
              IN /\ r.action = "updated"
                 /\ r.postId = remoteIdBySlug(trim(s.rows[s.i].slug))
                 /\ Len(posts') = Len(posts) ]_vars

\* C8: in create mode, when no remote request has failed, a valid row
\* without slug ends with action 'created', whatever posts the remote holds.
C8_NoSlugAlwaysCreated ==
  [][ \A p \in Inv :
        LET s == inv[p]
        IN (/\ s.mode = "upload" /\ Active(p)
            /\ s.i \in 1..Len(s.rows)
            /\ inv'[p].i > s.i
            /\ faults' = 0
            /\ ValidRow(s.rows[s.i])
            /\ ~NonBlank(s.rows[s.i].slug))
           => logResults'["upload"][Len(logResults["upload"]) + 1].action
                 = "created" ]_vars

\* C9: when the connectivity probe fails the batch is aborted before any
\* row: no row is attempted, no remote write is issued, no outcome is
\* recorded; the exported batch functions throw and main exits with code 1.
C9_ProbeFailureAborts ==
  \A p \in Inv :
     inv[p].isConnected = "no" =>
        /\ inv[p].attempted = 0
        /\ inv[p].writes = 0
        /\ inv[p].pushed = 0
        /\ inv[p].summary = NoSummary
        /\ inv[p].pc = IF host = "cli" THEN "exited" ELSE "threw"
        /\ host = "cli" => inv[p].exitCode = 1

\* the probe of a batch over a CSV with rows failed, under either host
C9_Witness ==
  \E p \in Inv :
     /\ inv[p].isConnected = "no"
     /\ Len(inv[p].rows) >= 2
     /\ inv[p].pc \in Terminal

\* C10: in create mode a row whose title or content is blank ends with
\* action none and the error naming the missing field, and the batch goes
\* on with the following rows.
C10_BlankFieldFailsRowOnly ==
  \A p \in Inv :
     (inv[p].mode = "upload" /\ ~overlapped[p]) =>
        \A k \in 1..Len(inv[p].rows) :
           (~ValidRow(inv[p].rows[k]) /\ inv[p].attempted >= k) =>
              /\ ~(inv[p].pc = "threw" /\ inv[p].i = k)
              /\ (inv[p].i > k /\ (Active(p) \/ inv[p].pc \in {"returned", "exited"}))
                    => /\ OwnOutcomes(p)[k].action = NoAction
                       /\ OwnOutcomes(p)[k].error =
                             IF ~NonBlank(inv[p].rows[k].title)
                             THEN ErrMissingTitle ELSE ErrMissingContent

\* the identifier updatePost resolves the row by: the first non-blank of
\* post_id, slug, title
chosenIdentifier(row) ==
  IF NonBlank(row.post_id) THEN "id_lookup"
  ELSE IF NonBlank(row.slug) THEN "slug_lookup"
  ELSE IF NonBlank(row.title) THEN "title_page"
  ELSE "none"

\* the chosen identifier of the row matches no remote post
MatchesNoPost(row) ==
  IF NonBlank(row.post_id) THEN ~remoteHasId(pathId(trim(row.post_id)))
  ELSE IF NonBlank(row.slug) THEN remoteIdBySlug(trim(row.slug)) = NoId
  ELSE ~TitleHeld(row.title)

\* the error of a row whose chosen identifier matches no remote post
notFoundError(row) ==
  IF NonBlank(row.post_id) THEN ErrIdNotFound
  ELSE IF NonBlank(row.slug) THEN ErrSlugNotFound
  ELSE ErrTitleNotFound

LookupPcs == {"id_lookup", "slug_lookup", "title_page"}

\* C11: in update mode the lookup in progress is the one of the first
\* non-blank field among post_id, slug, title; when that identifier matches
\* no remote post, the step that ends the lookup fails the row with action
\* none and the 'not found' error of that identifier: no lookup by another
\* identifier follows and no write is issued for the row.
C11_FirstIdentifierOrNotFound ==
  [][ \A p \in Inv :
        LET s == inv[p]
            row == s.rows[s.i]
        IN (s.mode = "update" /\ s.pc \in LookupPcs) =>
             /\ s.pc = chosenIdentifier(row)
             /\ (inv'[p] # s /\ MatchesNoPost(row)) =>
                  /\ inv'[p].writes = s.writes
                  /\ \/ /\ inv'[p].pc = "threw"
                        /\ inv'[p].result.action = NoAction
                        /\ inv'[p].result.error = notFoundError(row)
                     \/ /\ inv'[p].i > s.i
                        /\ LET r == logResults'["update"][Len(logResults["update"]) + 1]
                           IN r.action = NoAction /\ r.error = notFoundError(row)
                     \/ /\ s.pc = "title_page"
                        /\ inv'[p] = [s EXCEPT !.page = @ + 1] ]_vars

\* a row naming an absent post_id and the slug and title of an existing
\* post has ended with the error of the post_id
C11_Witness ==
  \E p \in Inv :
     /\ inv[p].mode = "update" /\ inv[p].pc = "returned" /\ ~overlapped[p]
     /\ \E k \in 1..Len(inv[p].rows) :
          /\ NonBlank(inv[p].rows[k].post_id)
          /\ MatchesNoPost(inv[p].rows[k])
          /\ remoteIdBySlug(trim(inv[p].rows[k].slug)) # NoId
          /\ TitleHeld(inv[p].rows[k].title)
          /\ inv[p].summary.results[k].error = ErrIdNotFound
          /\ inv[p].summary.results[k].action = NoAction
          /\ inv[p].summary.results[k].postId = NoId

\* the CSV column a payload key of the updater comes from
TextKeys == {"title", "content", "status", "slug", "excerpt"}
columnOf(row, key) ==
  CASE key = "title" -> row.title
    [] key = "content" -> row.content
    [] key = "status" -> row.status
    [] key = "slug" -> row.slug
    [] key = "excerpt" -> row.excerpt
    [] key = "acf" -> row.acf_json
    [] key = "categories" -> row.categories
    [] key = "tags" -> row.tags
    [] key = "featured_media" ->
         IF NonBlank(row.featured_image_path) THEN row.featured_image_path
         ELSE row.featured_image_url
    [] OTHER -> <<>>

\* of the columns that feed the payload, the row sets status only
OnlyStatus(row) ==
  /\ NonBlank(row.status)
  /\ \A key \in (TextKeys \ {"status"})
                  \cup {"acf", "categories", "tags", "featured_media"} :
        ~NonBlank(columnOf(row, key))

\* C12: in update mode the payload of POST /posts/{id} has a key only for a
\* column that is non-blank in the row, a text field carrying the trimmed
\* column; a row that sets only status sends exactly {status}, and the
\* update call, when answered, ends the row with action 'updated'.
C12_SparseUpdatePayload ==
  [][ \A p \in Inv :
        LET s == inv[p]
            row == s.rows[s.i]
        IN (s.mode = "update" /\ s.pc = "post_write") =>
             /\ \A key \in DOMAIN s.postData :
                   /\ NonBlank(columnOf(row, key))
                   /\ key \in TextKeys => s.postData[key] = trim(columnOf(row, key))
             /\ OnlyStatus(row) => DOMAIN s.postData = {"status"}
             /\ (inv'[p] # s /\ faults' = faults) =>
                  /\ inv'[p].i > s.i
                  /\ LET r == logResults'["update"][Len(logResults["update"]) + 1]
                     IN r.action = "updated" /\ r.postId = s.target ]_vars

\* a row with post_id and status only has been applied as an update
C12_Witness ==
  \E p \in Inv :
     /\ inv[p].mode = "update" /\ inv[p].pc = "returned" /\ ~overlapped[p]
     /\ \E k \in 1..Len(inv[p].rows) :
          /\ OnlyStatus(inv[p].rows[k])
          /\ NonBlank(inv[p].rows[k].post_id)
          /\ inv[p].summary.results[k].action = "updated"
          /\ inv[p].summary.results[k].error = NoError

\* the row populates post_id and no other column
OnlyPostId(row) ==
  /\ NonBlank(row.post_id)
  /\ \A col \in (DOMAIN row) \ {"post_id"} : ~NonBlank(row[col])

\* C13: in update mode a row that populates only post_id, naming an existing
\* post, never gets to the update call: when the existing post has been
\* fetched the row fails with action none and the nothing-to-update error,
\* and no write is issued for it.
C13_EmptyUpdateRejected ==
  [][ \A p \in Inv :
        LET s == inv[p]
        IN (/\ s.mode = "update" /\ Active(p)
            /\ s.i \in 1..Len(s.rows)
            /\ OnlyPostId(s.rows[s.i])) =>
             /\ s.pc \in {"id_lookup", "fetch_existing"}
             /\ (s.pc = "fetch_existing" /\ inv'[p] # s /\ faults' = faults) =>
                  /\ inv'[p].writes = s.writes
                  /\ posts' = posts /\ oldPosts' = oldPosts
                  /\ \/ /\ inv'[p].pc = "threw"
                        /\ inv'[p].result.action = NoAction
                        /\ inv'[p].result.error = ErrNothingToUpdate
                     \/ /\ inv'[p].i > s.i
                        /\ LET r == logResults'["update"][Len(logResults["update"]) + 1]
                           IN r.action = NoAction /\ r.error = ErrNothingToUpdate ]_vars

\* a row naming only the post_id of an existing post has ended with the
\* nothing-to-update error, the batch having issued no write before it
C13_Witness ==
  \E p \in Inv :
     /\ inv[p].mode = "update" /\ inv[p].pc = "returned" /\ ~overlapped[p]
     /\ OnlyPostId(inv[p].rows[1])
     /\ remoteHasId(pathId(trim(inv[p].rows[1].post_id)))
     /\ inv[p].summary.results[1].action = NoAction
     /\ inv[p].summary.results[1].error = ErrNothingToUpdate

\* C14: findPostByTitle requests pages 1, 2, ... of perPage posts and never
\* a page beyond maxPages: a request is followed by the next page only when
\* it was answered with a full page without match and the page is below
\* maxPages, otherwise the search is over; when page maxPages comes back
\* full and without match the search returns null (not found).
C14_TitleSearchBounded ==
  [][ \A p \in Inv :
        LET s == inv[p]
            title == trim(s.rows[s.i].title)
        IN s.pc = "title_page" =>
             /\ s.page \in 1..maxPages
             /\ inv'[p] # s =>
                  \/ /\ inv'[p] = [s EXCEPT !.page = @ + 1]
                     /\ s.page < maxPages
                     /\ faults' = faults
                     /\ Len(listPage(s.page)) = perPage
                     /\ pageMatch(listPage(s.page), title) = NoId
                  \/ inv'[p].pc # "title_page"
                  \/ inv'[p].i > s.i
             /\ (/\ inv'[p] # s /\ faults' = faults /\ s.page = maxPages
                 /\ Len(listPage(s.page)) = perPage
                 /\ pageMatch(listPage(s.page), title) = NoId) =>
                  IF s.mode = "upload"
                  THEN /\ inv'[p].pc \in {"slug_lookup", "post_delay"}
                       /\ inv'[p].i = s.i
                  ELSE \/ /\ inv'[p].pc = "threw"
                          /\ inv'[p].result.error = ErrTitleNotFound
                       \/ /\ inv'[p].i > s.i
                          /\ logResults'["update"][Len(logResults["update"]) + 1].error
                                = ErrTitleNotFound ]_vars

\* on a site of more than perPage * maxPages posts whose only post with the
\* row's title is older than the newest perPage * maxPages, the search has
\* ended without match and the row goes on to its create call
C14_Witness ==
  \E p \in Inv :
     /\ TotalPosts > perPage * maxPages
     /\ faults = 0
     /\ inv[p].mode = "upload" /\ inv[p].pc = "post_write"
     /\ inv[p].page = maxPages
     /\ TitleHeld(inv[p].rows[inv[p].i].title)

\* C15: the title normalization is idempotent: normalizing a normalized
\* title returns it unchanged, for every title put together from tags,
\* entities, '<', '>', '&', ';', '#', digits, letters and spaces.
C15_NormalizeIdempotent ==
  Len(output) = 2 => output[2] = output[1]

\* a title with a tag, a known entity and an upper-case letter has been
\* normalized twice, the first time to another text
C15_Witness ==
  /\ Len(output) = 2
  /\ input = <<"<","b",">","&","a","m","p",";","B">>
  /\ output[1] = <<"&","b">>

\* the positions at which a remote write is issued, and the pacing sleep
\* awaited right before each
WritePcs == {"term_create", "media_upload", "post_write"}
sleepBefore(pc) ==
  CASE pc = "term_create" -> "term_delay"
    [] pc = "media_upload" -> "media_delay"
    [] pc = "post_write" -> "post_delay"

\* C16: within one batch a remote write (term creation, media upload, post
\* create / update) is issued only from a position the batch has reached by
\* awaiting a pacing delay as its last step, so at least one pacing delay
\* lies between any two consecutive writes, of one row or of successive rows.
C16_DelayBeforeEveryWrite ==
  [][ \A p \in Inv :
        /\ inv'[p].writes > inv[p].writes => inv[p].pc \in WritePcs
        /\ (inv'[p] # inv[p] /\ inv'[p].pc \in WritePcs) =>
              inv[p].pc = sleepBefore(inv'[p].pc) ]_vars

\* a batch has issued a term creation, a media upload and a post creation
\* in one row
C16_Witness ==
  \E p \in Inv :
     /\ inv[p].pc = "returned"
     /\ inv[p].writes >= 3
     /\ Len(media) >= 1
     /\ Len(terms["categories"]) >= 2
     /\ inv[p].summary.results[Len(inv[p].rows)].action = "created"

\* C17: a pacing delay is awaited only for a remote write: when no request
\* has failed, the pacing delay that follows a term name in resolveTerms is
\* awaited only when a term was created for the name, not after a search
\* that found the term.
C17_NoDelayAfterLookup ==
  [][ \A p \in Inv :
        (/\ inv'[p].pc = "term_pace" /\ inv[p].pc # "term_pace"
         /\ faults' = 0) =>
           inv[p].pc = "term_create" ]_vars

\* the remote holds, under the taxonomy, a term of that id whose name equals
\* `name` up to letter case
TermNamed(tms, tax, id, name) ==
  \E k \in 1..Len(tms[tax]) :
     /\ tms[tax][k].id = id
     /\ toLowerCase(tms[tax][k].name) = toLowerCase(name)

\* C18: resolveTerms never raises: a search or creation that fails for one
\* name neither fails the row nor stops the list; the name is left out of
\* the ids, the next name is attempted, and a name that resolves appends the
\* id of its term, so the ids are those of the resolved names in list order.
C18_TermFailureSkipsName ==
  [][ \A p \in Inv :
        LET s == inv[p]
        IN /\ (s.pc \in {"term_search", "term_create"} /\ inv'[p] # s) =>
                /\ inv'[p].pc \in {"term_delay", "term_pace"}
                /\ inv'[p].i = s.i
                /\ inv'[p].names = s.names
                /\ inv'[p].pc = "term_delay" => inv'[p].termIds = s.termIds
                /\ inv'[p].pc = "term_pace" =>
                     IF faults' > faults THEN inv'[p].termIds = s.termIds
                     ELSE /\ Len(inv'[p].termIds) = Len(s.termIds) + 1
                          /\ SubSeq(inv'[p].termIds, 1, Len(s.termIds)) = s.termIds
                          /\ TermNamed(terms', s.tax,
                                       inv'[p].termIds[Len(s.termIds) + 1],
                                       Head(s.names))
           /\ (s.pc = "term_pace" /\ inv'[p] # s /\ Tail(s.names) # <<>>) =>
                /\ inv'[p].pc = "term_search"
                /\ inv'[p].names = Tail(s.names)
                /\ inv'[p].termIds = s.termIds ]_vars

\* the search for the first of two category names failed, the second name
\* resolved to the existing term, and the payload carries that term only
C18_Witness ==
  \E p \in Inv :
     /\ faults = 1
     /\ Len(terms["categories"]) = 1
     /\ inv[p].i \in 1..Len(inv[p].rows)
     /\ Len(termNames(inv[p].rows[inv[p].i].categories)) = 2
     /\ "categories" \in DOMAIN inv[p].postData
     /\ inv[p].postData["categories"] = <<terms["categories"][1].id>>

\* C19: uploadMedia never raises to the row: no failure while the image is
\* acquired or uploaded becomes the row's error, and the step that ends a
\* download or an upload leaves the row on its way to the create / update
\* call, without featured_media when the image was not uploaded.
C19_MediaFailureNeverFailsRow ==
  [][ \A p \in Inv :
        LET s == inv[p]
        IN /\ inv'[p].result.error # ErrReadFile
           /\ \A m \in DOMAIN logResults : \A k \in 1..Len(logResults'[m]) :
                 logResults'[m][k].error # ErrReadFile
           /\ (s.pc \in {"media_download", "media_upload"} /\ inv'[p] # s) =>
                \/ inv'[p].pc = "media_delay" /\ faults' = faults
                \/ /\ inv'[p].i = s.i
                   /\ inv'[p].pc \in {"title_page", "post_delay"}
                   /\ ("featured_media" \in DOMAIN inv'[p].postData)
                         <=> (Len(media') > Len(media)) ]_vars

\* the image source of the row an invocation is on: the path column, else
\* the URL column
imageSource(s) ==
  LET row == s.rows[s.i]
  IN IF NonBlank(row.featured_image_path) THEN trim(row.featured_image_path)
     ELSE trim(row.featured_image_url)

\* the ingestion steps of a row
MediaPcs == {"media_download", "media_delay", "media_upload"}

\* C20: update mode ingests media exactly as create mode: in either mode the
\* address requested is the source after the Drive-link rewrite, a response
\* whose content-type is HTML is never taken to the upload, and the asset
\* taken to the upload has the filename and the MIME type that the create
\* mode gives to that source and response.
C20_UpdateIngestsAsCreate ==
  \A p \in Inv :
    LET s == inv[p]
    IN (s.pc \in MediaPcs /\ isUrl(imageSource(s))) =>
         LET asCreate == convertGoogleDriveUrl(imageSource(s))
         IN /\ s.img.src = asCreate
            /\ s.img.ok =>
                 /\ s.img.mimeType \notin HtmlTypes
                 /\ \E resp \in DownloadResponses :
                       s.img = uploadDownloaded(asCreate, resp)

C22_DriveLinkRewritten ==
  output # <<>> =>
    LET url    == input
        scheme == IF startsWith(url, HttpsPrefix) THEN Len(HttpsPrefix)
                  ELSE Len(HttpPrefix)
        ends   == {k \in (scheme + 1)..Len(url) : url[k] \in {"/", "?", "#"}}
        hostTo == IF ends = {} THEN Len(url)
                  ELSE (CHOOSE k \in ends : \A m \in ends : k <= m) - 1
        onDrive == SubSeq(url, scheme + 1, hostTo) = DriveHost
        marks  == {k \in 1..Len(url) : url[k] \in {"?", "#"}}
        pathTo == IF marks = {} THEN Len(url)
                  ELSE (CHOOSE k \in marks : \A m \in marks : k <= m) - 1
        inPath  == {idRun(url, k + 3) : k \in
                      {k \in (hostTo + 1)..(pathTo - 2) :
                          SubSeq(url, k, k + 2) = <<"/","d","/">>}} \ {<<>>}
        inQuery == {idRun(url, k + 3) : k \in
                      {k \in (pathTo + 2)..(Len(url) - 2) :
                          /\ url[k - 1] \in {"?", "&"}
                          /\ SubSeq(url, k, k + 2) = <<"i","d","=">>}} \ {<<>>}
    IN /\ Len(output) = 1
       /\ IF onDrive /\ inPath \cup inQuery # {}
          THEN \E id \in inPath \cup inQuery : output[1] = DriveDirect \o id
          ELSE output[1] = url

\* C23: when the term search is answered, getOrCreateTerm takes the id of a
\* term whose name equals the requested name up to letter case, whatever
\* else the search returned (a term that merely contains the name is never
\* taken), and goes on to the create call only when the remote holds no term
\* of that name; the term created carries exactly the trimmed requested name.
C23_ExactTermMatchOrCreate ==
  [][ \A p \in Inv :
        LET s    == inv[p]
            name == Head(s.names)
            same == {k \in 1..Len(terms[s.tax]) :
                       toLowerCase(terms[s.tax][k].name) = toLowerCase(name)}
        IN /\ (s.pc = "term_search" /\ inv'[p] # s /\ faults' = faults) =>
                IF same = {}
                THEN inv'[p].pc = "term_delay" /\ inv'[p].termIds = s.termIds
                ELSE /\ inv'[p].pc = "term_pace"
                     /\ \E k \in same :
                          inv'[p].termIds = Append(s.termIds, terms[s.tax][k].id)
           /\ (s.pc = "term_create" /\ inv'[p] # s /\ faults' = faults) =>
                /\ Len(terms'[s.tax]) = Len(terms[s.tax]) + 1
                /\ terms'[s.tax][Len(terms'[s.tax])].name = name
                /\ name = trim(name) /\ name # <<>>
                /\ \E k \in 1..Len(splitComma(s.rows[s.i][s.tax], <<>>)) :
                      name = trim(splitComma(s.rows[s.i][s.tax], <<>>)[k]) ]_vars

\* a row asked for the categories n and Nx of a site holding nx: n was
\* created although the search for it returned nx, and Nx took the id of nx
C23_Witness ==
  \E p \in Inv :
     /\ inv[p].i \in 1..Len(inv[p].rows)
     /\ termNames(inv[p].rows[inv[p].i].categories) = << <<"n">>, <<"N","x">> >>
     /\ "categories" \in DOMAIN inv[p].postData
     /\ Len(inv[p].postData["categories"]) = 2
     /\ \E k \in 2..Len(terms["categories"]) :
          /\ terms["categories"][k].name = <<"n">>
          /\ inv[p].postData["categories"][1] = terms["categories"][k].id
     /\ terms["categories"][1].name = <<"n","x">>
     /\ inv[p].postData["categories"][2] = terms["categories"][1].id

\* C24: within one batch that no other batch overlaps, once a create call has
\* made a term, every later answered search for the same name up to letter
\* case in that taxonomy (by a later entry of the list or by a later row)
\* takes the id of that term and goes to no create call, so the batch never
\* creates two terms of one name.
C24_CreatedTermIsReused ==
  [][ \A p \in Inv :
        LET s    == inv[p]
            made == {k \in 1..Len(s.created) :
                       /\ s.created[k].id # NoId
                       /\ s.created[k].tax = s.tax
                       /\ toLowerCase(s.created[k].name)
                            = toLowerCase(Head(s.names))}
        IN /\ (/\ s.pc = "term_search" /\ inv'[p] # s /\ faults' = faults
               /\ ~overlapped[p] /\ made # {}) =>
                 /\ inv'[p].pc = "term_pace"
                 /\ \E k \in made :
                      inv'[p].termIds = Append(s.termIds, s.created[k].id)
           /\ (~overlapped'[p] /\ inv'[p].pc = "term_create") => made = {}
           /\ ~overlapped'[p] =>
                \A j, k \in 1..Len(inv'[p].created) :
                   (/\ j < k
                    /\ inv'[p].created[j].id # NoId
                    /\ inv'[p].created[j].tax = inv'[p].created[k].tax)
                   => toLowerCase(inv'[p].created[j].name)
                        # toLowerCase(inv'[p].created[k].name) ]_vars

\* a batch on its own created the category k for its first row, resolved K
\* of the same list to it, and resolved K of its second row to it as well
C24_Witness ==
  \E p \in Inv :
     /\ ~overlapped[p]
     /\ inv[p].i = 2
     /\ Len(inv[p].created) = 1
     /\ inv[p].created[1].name = <<"k">> /\ inv[p].created[1].id # NoId
     /\ Len(logResults[inv[p].mode]) >= 1
     /\ "categories" \in DOMAIN inv[p].postData
     /\ inv[p].postData["categories"] = <<inv[p].created[1].id>>
     /\ \E k \in 1..Len(posts) : posts[k].title = <<"K">>

\* C25: an answered listing request of findPostByTitle whose page holds a
\* post of the normalized search title ends the search with the id of the
\* first such post of the page, and no further page is requested; a page
\* without such a post sends the search to the next page or ends it with
\* null; and while the listing does not change (one run of main), every page
\* scanned before the one requested held no such post.
C25_FirstTitleMatchWins ==
  [][ \A p \in Inv :
        LET s       == inv[p]
            data    == listPage(s.page)
            wanted  == normalizeTitle(trim(s.rows[s.i].title))
            matches == {k \in 1..Len(data) : normalizeTitle(data[k].title) = wanted}
            first   == CHOOSE k \in matches : \A m \in matches : k <= m
            ended   == inv'[p].i > s.i \/ inv'[p].pc \in Terminal
            outcome == IF inv'[p].pc = "threw" THEN inv'[p].result
                       ELSE logResults'[s.mode][Len(logResults[s.mode]) + 1]
            onward  == inv'[p].i = s.i /\ inv'[p].pc = "title_page"
                       /\ inv'[p].page = s.page + 1
        IN /\ (s.pc = "title_page" /\ inv'[p] # s /\ faults' = faults) =>
                IF matches # {}
                THEN /\ ~onward
                     /\ IF s.mode = "upload"
                        THEN ended /\ outcome.error = ErrDuplicate
                        ELSE /\ inv'[p].i = s.i
                             /\ inv'[p].pc = "fetch_existing"
                             /\ inv'[p].target = data[first].id
                ELSE \/ onward
                     \/ IF s.mode = "upload"
                        THEN /\ inv'[p].i = s.i
                             /\ inv'[p].pc \in {"slug_lookup", "post_delay"}
                        ELSE ended /\ outcome.error = ErrTitleNotFound
           /\ (host = "cli" /\ inv'[p].pc = "title_page") =>
                \A n \in 1..(inv'[p].page - 1) :
                   pageMatch(listPage(n), trim(inv'[p].rows[inv'[p].i].title)) = NoId ]_vars

\* an update row found its target by title where the listing holds two
\* posts of that normalized title: the target is the newer one
C25_Witness ==
  \E p \in Inv :
     /\ inv[p].mode = "update" /\ inv[p].pc = "fetch_existing"
     /\ ~NonBlank(inv[p].rows[inv[p].i].post_id)
     /\ ~NonBlank(inv[p].rows[inv[p].i].slug)
     /\ Len(posts) >= 2
     /\ normalizeTitle(posts[1].title) = normalizeTitle(posts[2].title)
     /\ normalizeTitle(posts[1].title) = normalizeTitle(inv[p].rows[inv[p].i].title)
     /\ inv[p].target = posts[1].id

\* C26: in create mode, once the payload is built (and with every request
\* answered), each of meta_title,
\* meta_description and focus_keyword that is non-blank in the row is in the
\* payload under the generic field (the column's name), the Yoast field and
\* the Rank Math field, with the trimmed value each time, and none of the
\* three fields is in the payload for a blank column.
C26_SeoFieldsUnderThreeNames ==
  \A p \in Inv :
    LET s == inv[p]
        fieldsOf == [ meta_title |->
                        {"meta_title", "_yoast_wpseo_title", "rank_math_title"},
                      meta_description |->
                        {"meta_description", "_yoast_wpseo_metadesc",
                         "rank_math_description"},
                      focus_keyword |->
                        {"focus_keyword", "_yoast_wpseo_focuskw",
                         "rank_math_focus_keyword"} ]
    IN (/\ s.mode = "upload" /\ faults = 0
        /\ s.pc \in {"title_page", "slug_lookup", "post_delay", "post_write"}) =>
         \A c \in DOMAIN fieldsOf : \A k \in fieldsOf[c] :
            IF NonBlank(s.rows[s.i][c])
            THEN k \in DOMAIN s.postData /\ s.postData[k] = trim(s.rows[s.i][c])
            ELSE k \notin DOMAIN s.postData

\* C27: within one batch invocation the rows are processed one at a time in
\* input order: whenever the invocation waits for a remote call or a delay
\* on behalf of row i, it has appended the outcomes of all the rows before i
\* and of no other row, the row it works for never goes back, and the
\* outcomes a step appends are those of the rows it has left, in row order.
C27_RowsOneAtATimeInOrder ==
  [][ \A p \in Inv :
        LET s  == inv[p]
            s2 == inv'[p]
            n  == s2.pushed - s.pushed
        IN s2 # s =>
             /\ s2.pc \notin ({"idle", "probe", "load"} \cup Terminal) =>
                   /\ s2.i \in 1..Len(s2.rows)
                   /\ s2.pushed = s2.i - 1
             /\ s2.i >= s.i
             /\ n >= 0
             /\ n > 0 =>
                   /\ Len(logResults'[s.mode]) >= n
                   /\ \A k \in 1..n :
                        logResults'[s.mode][Len(logResults'[s.mode]) - n + k].rowNumber
                          = s.pushed + k ]_vars

\* a batch is about to write the post of its second row after it appended
\* the outcome of its first row, a post it created
C27_Witness ==
  \E p \in Inv :
     /\ inv[p].pc = "post_write" /\ inv[p].i = 2 /\ inv[p].pushed = 1
     /\ ~overlapped[p]
     /\ Len(logResults[inv[p].mode]) = 1
     /\ logResults[inv[p].mode][1].rowNumber = 1
     /\ logResults[inv[p].mode][1].action = "created"

\* C28: a row whose acf_json is non-blank and does not parse is processed,
\* in both modes, as the same row with acf_json blank: the row function
\* reaches the same position with the same payload and the same outcome so
\* far (a failure only where the blank row fails), and the payload has no
\* acf key.
C28_BadAcfIsBlankAcf ==
  (/\ Len(output) = 2
   /\ NonBlank(input.row.acf_json) /\ ~jsonParses(input.row.acf_json)) =>
     /\ [output[1] EXCEPT !.rows = <<>>] = [output[2] EXCEPT !.rows = <<>>]
     /\ "acf" \notin DOMAIN output[1].postData
     /\ \A k \in 1..Len(output[1].out) :
           output[1].out[k].error \in
              {ErrMissingTitle, ErrMissingContent, ErrMissingIdentifier,
               ErrNothingToUpdate, ErrReadFile}

\* both modes have run on a row whose acf_json does not parse: an update row
\* with nothing else to send was rejected for its empty payload; a create
\* row went on to its duplicate search with title and content in the payload
C28_Witness ==
  /\ Len(output) = 2
  /\ NonBlank(input.row.acf_json) /\ ~jsonParses(input.row.acf_json)
  /\ \/ /\ input.mode = "update"
        /\ Len(output[1].out) = 1
        /\ output[1].out[1].error = ErrNothingToUpdate
        /\ NonBlank(input.row.post_id)
     \/ /\ input.mode = "upload"
        /\ output[1].pc = "title_page"
        /\ DOMAIN output[1].postData = {"title", "content", "status"}

\* C29: in create mode a row goes on towards its post create call only from
\* a duplicate search that was answered: a step in which the listing request
\* of the title search or the slug lookup fails does not leave the row on
\* its way to the write.
C29_FailedSearchStopsRow ==
  [][ \A p \in Inv :
        LET s == inv[p]
        IN (/\ s.mode = "upload"
            /\ s.pc \in {"title_page", "slug_lookup"}
            /\ inv'[p] # s /\ faults' > faults) =>
              ~(/\ inv'[p].i = s.i
                /\ inv'[p].pc \in {"slug_lookup", "post_delay", "post_write"}) ]_vars

\* C30: a row that is rejected by the duplicate gate (create mode) or for its
\* empty payload (update mode) has issued no remote write by then: no term
\* creation, no media upload, no post write, in the step that rejects it or
\* in any step of the row before. Stated for batches that run on their own,
\* without a progress callback, while no request fails.
C30_RejectedRowWroteNothing ==
  [][ \A p \in Inv :
        LET s       == inv[p]
            ended   == inv'[p].i > s.i \/ inv'[p].pc \in Terminal
            outcome == IF inv'[p].pc = "threw" THEN inv'[p].result
                       ELSE logResults'[s.mode][Len(logResults[s.mode]) + 1]
        IN (/\ inv'[p] # s /\ Active(p) /\ s.i >= 1 /\ faults' = 0
            /\ ~overlapped[p] /\ s.cb = "none"
            /\ ended
            /\ outcome.rowNumber = s.i
            /\ outcome.error \in {ErrDuplicate, ErrNothingToUpdate}) =>
              /\ s.rowWrites = 0
              /\ inv'[p].writes = s.writes ]_vars


C32_SummaryCountsAddUp ==
  \A p \in Inv :
     (inv[p].pc = "returned" /\ ~overlapped[p]) =>
        LET sm  == inv[p].summary
            bad == {k \in 1..Len(sm.results) : sm.results[k].error # NoError}
        IN /\ sm.total = sm.success + sm.failed
           /\ sm.total = Len(sm.results)
           /\ sm.failed = Cardinality(bad)
           /\ sm.success = Len(sm.results) - Cardinality(bad)

\* the second of two batches run one after the other in the same mode has
\* returned the summary of its two rows, one failed and one successful
C32_Witness ==
  /\ inv[1].pc \in Terminal /\ inv[1].mode = inv[2].mode
  /\ Len(inv[1].rows) > 0
  /\ inv[2].pc = "returned" /\ ~overlapped[2]
  /\ inv[2].summary.total = 2
  /\ inv[2].summary.failed = 1
  /\ inv[2].summary.success = 1

\* C33: when a progress callback is supplied, every processed row triggers
\* exactly one row-level event (success or error) that carries the row's
\* number: the row-level events an invocation has emitted are those of the
\* rows whose outcome it has appended, one each, in row order; they follow
\* the batch's info events; and a row's event is a success event if and only
\* if the row's outcome has no error.  Stated for invocations that run on
\* their own, while no request fails.
C33_OneEventPerRow ==
  \A p \in Inv :
     LET s        == inv[p]
         isRow(e) == e.type # "info"
         ev       == SelectSeq(s.events, isRow)
         outcomes == IF s.pc = "returned" THEN s.summary.results
                     ELSE logResults[s.mode]
     IN (/\ s.cb # "none" /\ ~overlapped[p] /\ faults = 0
         /\ Active(p) \/ s.pc = "returned") =>
           /\ Len(ev) = s.pushed
           /\ \A k \in 1..Len(ev) : ev[k].rowNumber = k
           /\ \A k \in 1..Len(s.events) :
                 s.events[k].type = "info" =>
                    \A j \in 1..k : s.events[j].type = "info"
           /\ \A k \in 1..Len(ev) :
                 k <= Len(outcomes) =>
                    (ev[k].type = "success" <=> outcomes[k].error = NoError)

=============================================================================
